---------------------------- MODULE Spec2Model ----------------------------
(***************************************************************************)
(* Code-Aggregation: the core of src/utils.py (find_files,                 *)
(* generate_file_tree, get_unique_filepath, aggregate_code) as state       *)
(* machines, one specification per operation.                              *)
(*                                                                         *)
(* Text conventions.  A file or directory name is a sequence of one-       *)
(* character strings, so that lower() and endswith() are computed          *)
(* character by character.  A raw path string is the sequence of its       *)
(* segments as str.split(os.sep) gives them: "/h/r" is <<E, h, r>> with E  *)
(* the empty segment, "r/s" is <<r, s>>, "venv" is <<venv>>.  An absolute  *)
(* normalised path (the value of os.path.abspath) is the sequence of its   *)
(* non-empty segments below the filesystem root.                           *)
(***************************************************************************)
EXTENDS Integers, Sequences, FiniteSets, TLC

VARIABLES
    pc,               \* position of the running operation
    log_queue,        \* the log sink: messages in the order they were put
    \* ---- find_files
    fs_files,         \* the filesystem: absolute paths of the regular files
    unreadable_dirs,  \* the filesystem: directories whose scandir raises
    directory,        \* argument: the directory to scan (raw path)
    extensions,       \* argument: list of extensions
    ignore_items,     \* argument: set of ignore items (raw paths)
    walk_stack,       \* os.walk: directories still to be yielded (raw paths)
    found_files_list, \* the result list
    \* ---- get_unique_filepath
    existing,         \* the filesystem: absolute paths for which os.path.exists holds
    output_dir,       \* argument `directory` (raw path)
    filename,         \* argument: base file name
    extension,        \* argument: extension
    counter,          \* the loop counter
    new_path,         \* the returned path (raw), <<>> before the return
    \* ---- generate_file_tree
    root_dir,         \* argument: the root directory (raw path)
    file_paths,       \* argument: list of absolute file paths
    tree,             \* the nested dict, as its entries in insertion order
    path_idx,         \* the next element of `for path in file_paths`
    tree_lines,       \* tree_lines, one record per line
    tree_string,      \* the returned string
    \* ---- aggregate_code (it also takes root_dir, file_paths and reads `existing`)
    output_filename,  \* argument: the output path (raw)
    output_format,    \* argument: ".md" or ".txt", as a name
    input_files,      \* the filesystem: each listed path's readability and bytes
    can_mkdir,        \* the filesystem: would os.makedirs of a named directory succeed
    can_open,         \* the filesystem: would open(output_filename, "w") succeed
    fail_at,          \* the filesystem: the output write call that raises (0: none)
    fail_persistent,  \* the filesystem: do the write calls after fail_at raise too
    write_calls,      \* output_file.write calls made so far
    output_file,      \* the text written to the output, as units
    opened,           \* has the output file been opened
    progress_queue,   \* the progress sink
    file_idx,         \* i of `for i, file_path in enumerate(file_paths)`
    result,           \* the value returned, "unset" before the return
    \* ---- CodeAggregatorAPI (src/code_aggregator_api.py)
    api_entry,        \* the method called
    api_output_file,  \* argument output_file (raw path)
    auto_rename,      \* argument auto_rename
    verbose,          \* argument verbose
    printed,          \* what the method printed (verbose)
    final_output_path, \* final_output_path (raw), <<>> before it is set
    api_result,       \* the value the method returned, "unset" before the return
    \* ---- CodeAggregatorApp (src/code_aggregator_gui.py)
    dir_path,         \* the root directory field: "" or a path
    start_button,     \* state of the start button: "normal" or "disabled"
    workers,          \* the worker threads started so far, one record per thread
    gui_log_queue,    \* self.log_queue: records [run, msg], run naming the putting thread
    log_area,         \* the lines shown in the log area
    progress_bar,     \* the value of the progress bar
    dialogs           \* the dialogs shown, in order

findVars == <<fs_files, unreadable_dirs, directory, extensions, ignore_items, walk_stack,
              found_files_list>>

uniqVars == <<existing, output_dir, filename, extension, counter, new_path>>

treeVars == <<root_dir, file_paths, tree, path_idx, tree_lines, tree_string>>

aggArgs == <<output_filename, output_format, input_files, can_mkdir, can_open,
             fail_at, fail_persistent>>

aggVars == <<aggArgs, write_calls, output_file, opened, progress_queue, file_idx, result>>

apiVars == <<api_entry, api_output_file, auto_rename, verbose, printed, final_output_path, api_result>>

guiVars == <<dir_path, start_button, workers, gui_log_queue, log_area, progress_bar,
             dialogs>>

vars == <<pc, log_queue, findVars, uniqVars, treeVars, aggVars, apiVars, guiVars>>

\* what each operation leaves alone
exceptFind == <<uniqVars, treeVars, aggVars, apiVars, guiVars>>

exceptUniq == <<findVars, treeVars, aggVars, apiVars, guiVars>>

exceptTree == <<findVars, uniqVars, aggVars, apiVars, guiVars>>

\* aggregate_code reads root_dir and file_paths and creates paths in `existing`
exceptAgg == <<findVars, output_dir, filename, extension, counter, new_path,
               root_dir, file_paths, tree, path_idx, tree_lines, tree_string, aggArgs,
               apiVars, guiVars>>

---------------------------------------------------------------------------
(* Bounds of the model.                                                    *)

\* most files in a scanned tree
MaxFiles == 2

\* most ignore items in one call
MaxIgnore == 1

\* the output directory may hold the base name and its numbered variants
\* up to this number
MaxExisting == 10

\* most paths in a list given to generate_file_tree
MaxPaths == 3

\* most files in a list given to aggregate_code
MaxAggFiles == 2

\* most worker threads the user starts in the GUI
MaxRuns == 2

\* most units (characters, or atoms such as a fence) in one input file
MaxContentLen == 3

---------------------------------------------------------------------------
(* Characters and names.                                                   *)

UpperCase == <<"A", "B", "C", "D", "E", "F", "G", "H", "I", "J", "K", "L", "M",
               "N", "O", "P", "Q", "R", "S", "T", "U", "V", "W", "X", "Y", "Z">>

LowerCase == <<"a", "b", "c", "d", "e", "f", "g", "h", "i", "j", "k", "l", "m",
               "n", "o", "p", "q", "r", "s", "t", "u", "v", "w", "x", "y", "z">>

\* str.lower() on one character
LowerChar(c) ==
    IF \E i \in 1..Len(UpperCase) : UpperCase[i] = c
    THEN LowerCase[CHOOSE i \in 1..Len(UpperCase) : UpperCase[i] = c]
    ELSE c

\* str.lower() on a name
StrLower(s) == [i \in 1..Len(s) |-> LowerChar(s[i])]

\* str.lower() on a path: the separator has no case, each segment is lowered
PathLower(p) == [i \in 1..Len(p) |-> StrLower(p[i])]

\* str.endswith
EndsWith(s, suffix) ==
    /\ Len(suffix) <= Len(s)
    /\ SubSeq(s, Len(s) - Len(suffix) + 1, Len(s)) = suffix

\* the empty segment: what split(os.sep) leaves before a leading separator
E == <<>>

Range(s) == {s[i] : i \in 1..Len(s)}

---------------------------------------------------------------------------
(* Paths (os.path).                                                        *)

\* the process's current working directory, an absolute normalised path
Cwd == << <<"h">> >>

Dot == <<".">>

DotDot == <<".", ".">>

\* os.path.normpath on the segments of a path below `acc`
RECURSIVE NormSegs(_, _)
NormSegs(segs, acc) ==
    IF segs = <<>> THEN acc
    ELSE LET s == Head(segs) IN
         IF s = E \/ s = Dot THEN NormSegs(Tail(segs), acc)
         ELSE IF s = DotDot
              THEN NormSegs(Tail(segs),
                            IF acc = <<>> THEN acc
                            ELSE SubSeq(acc, 1, Len(acc) - 1))
              ELSE NormSegs(Tail(segs), Append(acc, s))

\* os.path.isabs on a raw path
IsAbs(raw) == Len(raw) >= 2 /\ raw[1] = E

\* os.path.abspath: join with the working directory unless absolute, normalise
Abspath(raw) ==
    IF IsAbs(raw) THEN NormSegs(Tail(raw), <<>>) ELSE NormSegs(raw, Cwd)

\* os.path.join(root, name) for a relative one-segment name
PathJoin(root, name) ==
    IF Len(root) >= 2 /\ root[Len(root)] = E
    THEN SubSeq(root, 1, Len(root) - 1) \o <<name>>
    ELSE Append(root, name)

\* `os.path.sep in item`
HasSep(raw) == Len(raw) >= 2

\* the raw string of an absolute normalised path
RawOf(abs) == <<E>> \o abs

IsPrefix(p, q) == Len(p) <= Len(q) /\ SubSeq(q, 1, Len(p)) = p

---------------------------------------------------------------------------
(* The filesystem seen by os.walk: fs_files holds the regular files, the   *)
(* directories are their proper prefixes.  scandir's enumeration order is  *)
(* the host's; the model fixes it by ScanRank.                             *)

n_r == <<"r">>

n_v == <<"v">>

n_V == <<"V">>

n_s == <<"s">>

f_mp == <<"m", ".", "p">>

f_MP == <<"M", ".", "P">>

f_nt == <<"n", ".", "t">>

\* every name of the model, in the host's enumeration order
ScanRank == <<f_MP, n_s, f_nt, n_v, f_mp, n_V, n_r>>

RankOf(name) == CHOOSE i \in 1..Len(ScanRank) : ScanRank[i] = name

\* the names of a set, as a list in enumeration order
RECURSIVE ScanOrder(_)
ScanOrder(S) ==
    IF S = {} THEN <<>>
    ELSE LET n == CHOOSE x \in S : \A y \in S : RankOf(x) <= RankOf(y)
         IN <<n>> \o ScanOrder(S \ {n})

\* scandir(top): the subdirectories of top
SubdirNames(files, top) ==
    {f[Len(top) + 1] : f \in {g \in files : IsPrefix(top, g) /\ Len(g) >= Len(top) + 2}}

\* scandir(top): the regular files of top
FileNames(files, top) ==
    {f[Len(top) + 1] : f \in {g \in files : IsPrefix(top, g) /\ Len(g) = Len(top) + 1}}

---------------------------------------------------------------------------
(* find_files (src/utils.py).                                              *)

\* the ignore items without a separator, lower-cased
IgnoreBasenames(items) ==
    {StrLower(item[1]) : item \in {i \in items : ~HasSep(i)}}

\* the ignore items with a separator, made absolute and lower-cased
IgnoreFullPaths(items) ==
    {PathLower(Abspath(item)) : item \in {i \in items : HasSep(i)}}

\* FilterDirs without the filter by bare name
FilterDirs_PathOnly(root, dirs, items) ==
    LET byPath(d) == PathLower(Abspath(PathJoin(root, d))) \notin IgnoreFullPaths(items)
    IN SelectSeq(dirs, byPath)

\* dirs[:] after the two filters: by bare name, then by full path
FilterDirs(root, dirs, items) ==
    LET byName(d) == StrLower(d) \notin IgnoreBasenames(items)
        byPath(d) == PathLower(Abspath(PathJoin(root, d))) \notin IgnoreFullPaths(items)
    IN SelectSeq(SelectSeq(dirs, byName), byPath)

\* ExtMatches without lower-casing the file name
ExtMatches_CaseSensitive(file, exts) ==
    \E i \in 1..Len(exts) : EndsWith(file, StrLower(exts[i]))

\* any(file.lower().endswith(ext) for ext in extensions_lower)
ExtMatches(file, exts) ==
    \E i \in 1..Len(exts) : EndsWith(StrLower(file), StrLower(exts[i]))

\* FileAccepted with a full-path rule matched by its last segment only
FileAccepted_PathRuleByName(root, file, exts, items) ==
    /\ StrLower(file) \notin IgnoreBasenames(items)
    /\ StrLower(file) \notin {P[Len(P)] : P \in IgnoreFullPaths(items) \ {<<>>}}
    /\ ExtMatches(file, exts)

\* the body of `for file in files` for one file: is it appended?
FileAccepted(root, file, exts, items) ==
    /\ StrLower(file) \notin IgnoreBasenames(items)
    /\ PathLower(Abspath(PathJoin(root, file))) \notin IgnoreFullPaths(items)
    /\ ExtMatches(file, exts)

\* the absolute paths appended while the walk is at root, in order
RECURSIVE FoundIn(_, _, _, _)
FoundIn(root, files, exts, items) ==
    IF files = <<>> THEN <<>>
    ELSE (IF FileAccepted(root, Head(files), exts, items)
          THEN <<Abspath(PathJoin(root, Head(files)))>>
          ELSE <<>>)
         \o FoundIn(root, Tail(files), exts, items)

LogFound(paths) == [i \in 1..Len(paths) |-> <<"found", paths[i]>>]

\* lines 19-30: the result list, the first log line, the walk's start
FindStart ==
    /\ pc = "find_start"
    /\ found_files_list' = <<>>
    /\ log_queue' = Append(log_queue, <<"search_start", directory>>)
    /\ walk_stack' = <<directory>>
    /\ pc' = "walk"
    /\ UNCHANGED <<fs_files, unreadable_dirs, directory, extensions, ignore_items,
                   exceptFind>>

\* one iteration of `for root, dirs, files in os.walk(directory, topdown=True)`;
\* for a directory whose scandir raises, os.walk (onerror=None) yields nothing
\* and does not descend
WalkStep ==
    /\ pc = "walk"
    /\ walk_stack # <<>>
    /\ LET root  == Head(walk_stack)
           top   == Abspath(root)
           dirs  == IF top \in unreadable_dirs THEN <<>>
                    ELSE FilterDirs(root, ScanOrder(SubdirNames(fs_files, top)),
                                    ignore_items)
           files == IF top \in unreadable_dirs THEN <<>>
                    ELSE ScanOrder(FileNames(fs_files, top))
           new   == FoundIn(root, files, extensions, ignore_items)
       IN /\ found_files_list' = found_files_list \o new
          /\ log_queue' = log_queue \o LogFound(new)
          /\ walk_stack' = [i \in 1..Len(dirs) |-> PathJoin(root, dirs[i])]
                           \o Tail(walk_stack)
    /\ UNCHANGED <<pc, fs_files, unreadable_dirs, directory, extensions, ignore_items,
                   exceptFind>>

\* lines 61-62: the walk is exhausted
FindReturn ==
    /\ pc = "walk"
    /\ walk_stack = <<>>
    /\ log_queue' = Append(log_queue, <<"search_done", Len(found_files_list)>>)
    /\ pc' = "find_done"
    /\ UNCHANGED <<findVars, exceptFind>>

\* ---- the inputs of find_files

Directories == {RawOf(Cwd \o <<n_r>>), RawOf(Cwd \o <<n_v>>)}

RelDirs == {<<>>, <<n_v>>, <<n_V>>, <<n_s>>, <<n_s, n_V>>}

TreeFileNames == {f_mp, f_MP, f_nt}

CandidateFiles(dir) ==
    {Abspath(dir) \o d \o <<f>> : d \in RelDirs, f \in TreeFileNames}

IgnoreCandidates(dir) ==
    LET top == Abspath(dir) IN
    { <<n_V>>, <<f_mp>>,
      RawOf(top \o <<n_s>>),
      RawOf(top \o <<n_s, f_mp>>),
      RawOf(top \o <<n_V, f_MP>>),
      <<top[Len(top)], n_v, f_nt>> }

ExtensionLists ==
    { <<>>, << <<".", "p">> >>, << <<".", "P">> >>, << <<".", "t">>, <<".", "p">> >> }

\* the state of an operation that is not running
FindIdle ==
    /\ fs_files = {}
    /\ unreadable_dirs = {}
    /\ directory = <<>>
    /\ extensions = <<>>
    /\ ignore_items = {}
    /\ walk_stack = <<>>
    /\ found_files_list = <<>>

UniqIdle ==
    /\ existing = {}
    /\ output_dir = <<>>
    /\ filename = <<>>
    /\ extension = <<>>
    /\ counter = 0
    /\ new_path = <<>>

TreeIdle ==
    /\ root_dir = <<>>
    /\ file_paths = <<>>
    /\ tree = <<>>
    /\ path_idx = 0
    /\ tree_lines = <<>>
    /\ tree_string = ""

AggIdle ==
    /\ output_filename = <<>>
    /\ output_format = <<>>
    /\ input_files = <<>>
    /\ can_mkdir = TRUE
    /\ can_open = TRUE
    /\ fail_at = 0
    /\ fail_persistent = FALSE
    /\ write_calls = 0
    /\ output_file = <<>>
    /\ opened = FALSE
    /\ progress_queue = <<>>
    /\ file_idx = 0
    /\ result = "unset"

ApiIdle ==
    /\ api_entry = "none"
    /\ api_output_file = <<>>
    /\ auto_rename = FALSE
    /\ verbose = FALSE
    /\ printed = <<>>
    /\ final_output_path = <<>>
    /\ api_result = "unset"

GuiIdle ==
    /\ dir_path = ""
    /\ start_button = "normal"
    /\ workers = <<>>
    /\ gui_log_queue = <<>>
    /\ log_area = <<>>
    /\ progress_bar = 0
    /\ dialogs = <<>>

InitFind ==
    /\ ApiIdle
    /\ GuiIdle
    /\ UniqIdle
    /\ TreeIdle
    /\ AggIdle
    /\ pc = "find_start"
    /\ log_queue = <<>>
    /\ unreadable_dirs = {}
    /\ directory \in Directories
    /\ fs_files \in {S \in SUBSET CandidateFiles(directory) : Cardinality(S) <= MaxFiles}
    /\ ignore_items \in {S \in SUBSET IgnoreCandidates(directory) : Cardinality(S) <= MaxIgnore}
    /\ extensions \in ExtensionLists
    /\ walk_stack = <<>>
    /\ found_files_list = <<>>

NextFind == FindStart \/ WalkStep \/ FindReturn

SpecFind == InitFind /\ [][NextFind]_vars

\* the directories of a filesystem strictly below `top`
SubdirsBelow(files, top) ==
    UNION { {SubSeq(f, 1, k) : k \in (Len(top) + 1)..(Len(f) - 1)} :
            f \in {g \in files : IsPrefix(top, g)} }

\* a scan that meets one subdirectory it cannot read; no ignore items
InitFindUnreadable ==
    /\ ApiIdle
    /\ GuiIdle
    /\ UniqIdle
    /\ TreeIdle
    /\ AggIdle
    /\ pc = "find_start"
    /\ log_queue = <<>>
    /\ directory = RawOf(Cwd \o <<n_r>>)
    /\ fs_files \in {S \in SUBSET CandidateFiles(directory) : Cardinality(S) <= MaxFiles}
    /\ \E d \in SubdirsBelow(fs_files, Abspath(directory)) : unreadable_dirs = {d}
    /\ ignore_items = {}
    /\ extensions \in ExtensionLists
    /\ walk_stack = <<>>
    /\ found_files_list = <<>>

SpecFindUnreadable == InitFindUnreadable /\ [][NextFind]_vars

---------------------------------------------------------------------------
(* Claims about find_files.                                                *)

\* the scanned directory, absolute
ScanTop == Abspath(directory)

Basename(path) == path[Len(path)]

\* the basename rules of the call: the items without a separator, lower-cased
BasenameRuleSet == {StrLower(i[1]) : i \in {j \in ignore_items : Len(j) = 1}}

\* the full-path rules of the call: absolute, lower-cased
FullPathRuleSet == {PathLower(Abspath(i)) : i \in {j \in ignore_items : Len(j) > 1}}

\* the directories of the scanned tree that contain file f, the scanned
\* directory itself being the one of length Len(ScanTop)
DirsAbove(f) == {SubSeq(f, 1, k) : k \in Len(ScanTop)..(Len(f) - 1)}

\* the same, strictly below the scanned directory
SubdirsAbove(f) == DirsAbove(f) \ {ScanTop}

\* C1 as stated: no returned file has a basename in the basename-rule set,
\* and none lies inside a directory of the scanned tree (the scanned
\* directory included) whose lower-cased basename is in that set.
Orig_C1_NoFileUnderIgnoredName ==
    pc = "find_done" =>
        \A i \in 1..Len(found_files_list) :
            LET f == found_files_list[i] IN
            /\ StrLower(Basename(f)) \notin BasenameRuleSet
            /\ \A d \in DirsAbove(f) : StrLower(Basename(d)) \notin BasenameRuleSet

\* C1 amended: no returned file has a basename in the basename-rule set, none
\* lies inside a directory strictly below the scanned directory whose
\* lower-cased basename is in that set, and the walk never holds such a
\* directory to descend into; the scanned directory itself is walked
\* whatever its name.
Thm_C1_NoFileUnderIgnoredSubdir ==
    /\ \A i \in 1..Len(found_files_list) :
            LET f == found_files_list[i] IN
            /\ StrLower(Basename(f)) \notin BasenameRuleSet
            /\ \A d \in SubdirsAbove(f) : StrLower(Basename(d)) \notin BasenameRuleSet
    /\ \A j \in 1..Len(walk_stack) :
            \/ walk_stack[j] = directory
            \/ StrLower(Basename(walk_stack[j])) \notin BasenameRuleSet

\* C1 witness: the walk ended having returned a file, while a sentinel with a
\* matching extension sits in a subdirectory with an ignored name.
Wit_C1_SentinelSkipped ==
    /\ pc = "find_done"
    /\ found_files_list # <<>>
    /\ \E f \in fs_files :
          /\ ExtMatches(Basename(f), extensions)
          /\ \E d \in SubdirsAbove(f) : StrLower(Basename(d)) \in BasenameRuleSet

\* rule P excludes f: f's lower-cased path is P, or f lies below the
\* directory (strictly below the scanned one) whose lower-cased path is P
PathRuleExcludes(P, f) ==
    \/ PathLower(f) = P
    \/ \E d \in SubdirsAbove(f) : PathLower(d) = P

\* a basename rule excludes f: f or a directory above it carries the name
NameRuleExcludes(n, f) ==
    \/ StrLower(Basename(f)) = n
    \/ \E d \in SubdirsAbove(f) : StrLower(Basename(d)) = n

\* no rule of the call excludes f
NotIgnored(f) ==
    /\ \A n \in BasenameRuleSet : ~NameRuleExcludes(n, f)
    /\ \A P \in FullPathRuleSet : ~PathRuleExcludes(P, f)

\* the lower-cased name ends with the lower-cased form of some extension
SuffixMatch(f) ==
    \E e \in Range(extensions) :
        LET n == StrLower(Basename(f))
            x == StrLower(e)
        IN \E k \in 0..Len(n) : SubSeq(n, k + 1, Len(n)) = x

\* C2: under a full-path rule P, every file with a matching extension and
\* the basename of P whose lower-cased path is neither P nor below P, and
\* which no other rule excludes, is returned.
Thm_C2_FullPathRuleExactOnly ==
    pc = "find_done" =>
        \A P \in FullPathRuleSet \ {<<>>} : \A f \in fs_files :
            ( /\ SuffixMatch(f)
              /\ StrLower(Basename(f)) = Basename(P)
              /\ ~PathRuleExcludes(P, f)
              /\ \A n \in BasenameRuleSet : ~NameRuleExcludes(n, f)
              /\ \A Q \in FullPathRuleSet \ {P} : ~PathRuleExcludes(Q, f) )
            => f \in Range(found_files_list)

\* C2 witness: a full-path rule removed one file and a file with the same
\* basename elsewhere in the tree was returned.
Wit_C2_SiblingKept ==
    /\ pc = "find_done"
    /\ \E P \in FullPathRuleSet : \E f, g \in fs_files :
          /\ PathLower(f) = P
          /\ SuffixMatch(f)
          /\ f \notin Range(found_files_list)
          /\ g # f
          /\ StrLower(Basename(g)) = Basename(P)
          /\ g \in Range(found_files_list)

\* C3: a file no rule ignores is returned exactly when its lower-cased name
\* ends with the lower-cased form of a configured extension, and nothing
\* else is returned.
Thm_C3_SuffixCaseInsensitive ==
    pc = "find_done" =>
        /\ \A f \in fs_files :
              NotIgnored(f) => (f \in Range(found_files_list) <=> SuffixMatch(f))
        /\ \A i \in 1..Len(found_files_list) :
              /\ found_files_list[i] \in fs_files
              /\ SuffixMatch(found_files_list[i])

\* C3 witness: Main.PY is returned for the filter .py.
Wit_C3_UpperNameLowerFilter ==
    /\ pc = "find_done"
    /\ extensions = << <<".", "p">> >>
    /\ \E i \in 1..Len(found_files_list) : Basename(found_files_list[i]) = f_MP

---------------------------------------------------------------------------
(* get_unique_filepath (src/utils.py).                                     *)

DigitChars == <<"0", "1", "2", "3", "4", "5", "6", "7", "8", "9">>

\* str(n) for n >= 0, as the f-string formats the counter
RECURSIVE IntToStr(_)
IntToStr(n) ==
    IF n < 10 THEN <<DigitChars[n + 1]>>
    ELSE IntToStr(n \div 10) \o <<DigitChars[(n % 10) + 1]>>

\* f"{filename}{extension}"
BaseName(fname, ext) == fname \o ext

\* f"{filename} ({counter}){extension}"
NumberedName(fname, n, ext) ==
    fname \o <<" ", "(">> \o IntToStr(n) \o <<")">> \o ext

\* os.path.exists: the empty string names nothing
PathExists(raw) == raw # <<>> /\ Abspath(raw) \in existing

\* UniqueReturnBase without the existence test
UniqueReturnBase_NoTest ==
    /\ pc = "uniq_start"
    /\ new_path' = PathJoin(output_dir, BaseName(filename, extension))
    /\ pc' = "uniq_done"
    /\ UNCHANGED <<log_queue, existing, output_dir, filename, extension, counter,
                   exceptUniq>>

\* lines 114-116: the base path is free
UniqueReturnBase ==
    /\ pc = "uniq_start"
    /\ ~PathExists(PathJoin(output_dir, BaseName(filename, extension)))
    /\ new_path' = PathJoin(output_dir, BaseName(filename, extension))
    /\ pc' = "uniq_done"
    /\ UNCHANGED <<log_queue, existing, output_dir, filename, extension, counter,
                   exceptUniq>>

\* the same collision, the counter started one too high
UniqueCollide_FromTwo ==
    /\ pc = "uniq_start"
    /\ PathExists(PathJoin(output_dir, BaseName(filename, extension)))
    /\ counter' = 2
    /\ pc' = "uniq_loop"
    /\ UNCHANGED <<log_queue, existing, output_dir, filename, extension, new_path,
                   exceptUniq>>

\* lines 115-119: the base path exists, the counter starts
UniqueCollide ==
    /\ pc = "uniq_start"
    /\ PathExists(PathJoin(output_dir, BaseName(filename, extension)))
    /\ counter' = 1
    /\ pc' = "uniq_loop"
    /\ UNCHANGED <<log_queue, existing, output_dir, filename, extension, new_path,
                   exceptUniq>>

\* lines 122-124, 128: the numbered path exists too
UniqueRetry ==
    /\ pc = "uniq_loop"
    /\ PathExists(PathJoin(output_dir, NumberedName(filename, counter, extension)))
    /\ counter' = counter + 1
    /\ UNCHANGED <<pc, log_queue, existing, output_dir, filename, extension, new_path,
                   exceptUniq>>

\* lines 122-127: the numbered path is free
UniqueReturnNew ==
    /\ pc = "uniq_loop"
    /\ ~PathExists(PathJoin(output_dir, NumberedName(filename, counter, extension)))
    /\ log_queue' = log_queue \o
          << <<"exists", BaseName(filename, extension)>>,
             <<"renamed", NumberedName(filename, counter, extension)>> >>
    /\ new_path' = PathJoin(output_dir, NumberedName(filename, counter, extension))
    /\ pc' = "uniq_done"
    /\ UNCHANGED <<existing, output_dir, filename, extension, counter, exceptUniq>>

\* ---- the inputs of get_unique_filepath

OutputDirs == {RawOf(Cwd \o << <<"o">> >>), << <<"o">> >>}

BaseFilenames == {<<"s">>, <<"s", " ", "(", "1", ")">>}

OutputFormats == {<<".", "m", "d">>, <<".", "t", "x", "t">>}

\* what the output directory may hold: the base name, its numbered variants,
\* and names that only look like them
ExistingCandidates(dir, fname, ext) ==
    {Abspath(PathJoin(dir, BaseName(fname, ext)))}
    \cup {Abspath(PathJoin(dir, NumberedName(fname, k, ext))) : k \in 1..MaxExisting}
    \cup {Abspath(PathJoin(dir, fname \o <<"(", "1", ")">> \o ext)),
          Abspath(PathJoin(dir, NumberedName(fname, 1, <<>>)))}

InitUnique ==
    /\ ApiIdle
    /\ GuiIdle
    /\ FindIdle
    /\ TreeIdle
    /\ AggIdle
    /\ pc = "uniq_start"
    /\ log_queue = <<>>
    /\ output_dir \in OutputDirs
    /\ filename \in BaseFilenames
    /\ extension \in OutputFormats
    /\ existing \in SUBSET ExistingCandidates(output_dir, filename, extension)
    /\ counter = 0
    /\ new_path = <<>>

NextUnique == UniqueReturnBase \/ UniqueCollide \/ UniqueRetry \/ UniqueReturnNew

SpecUnique == InitUnique /\ [][NextUnique]_vars

---------------------------------------------------------------------------
(* Claims about get_unique_filepath.                                       *)

\* the decimal numeral of k: the digit string without a leading zero whose
\* value is k
DigitValue(c) == (CHOOSE i \in 1..10 : DigitChars[i] = c) - 1

DecimalOf(k) ==
    CHOOSE s \in {<<DigitChars[i]>> : i \in 1..10}
                 \cup {<<DigitChars[i], DigitChars[j]>> : i \in 2..10, j \in 1..10} :
        IF Len(s) = 1 THEN DigitValue(s[1]) = k
        ELSE 10 * DigitValue(s[1]) + DigitValue(s[2]) = k

\* directory/filename+extension for k = 0, directory/'filename (k)'+extension
\* otherwise, as an absolute path
CandidatePath(k) ==
    (IF output_dir[1] = <<>> THEN Tail(output_dir) ELSE Cwd \o output_dir)
    \o << IF k = 0 THEN filename \o extension
          ELSE filename \o <<" ", "(">> \o DecimalOf(k) \o <<")">> \o extension >>

\* C4: the call ends (a step is enabled until it returns, and the counter
\* never exceeds the number of existing paths by more than one); the path
\* returned does not exist; it is the base path when that is free, and
\* otherwise the numbered path with the least k >= 1 that is free.
Thm_C4_UniquePathLeastFree ==
    /\ pc \in {"uniq_start", "uniq_loop"} => ENABLED NextUnique
    /\ pc = "uniq_loop" =>
          /\ counter <= Cardinality(existing)
          /\ \A j \in 0..(counter - 1) : CandidatePath(j) \in existing
    /\ pc = "uniq_done" =>
          /\ Abspath(new_path) \notin existing
          /\ CandidatePath(0) \notin existing => Abspath(new_path) = CandidatePath(0)
          /\ CandidatePath(0) \in existing =>
                \E k \in 1..(Cardinality(existing) + 1) :
                    /\ Abspath(new_path) = CandidatePath(k)
                    /\ \A j \in 1..(k - 1) : CandidatePath(j) \in existing

\* C4 witness: summary.md and summary (1).md exist, summary (2).md is returned.
Wit_C4_SecondVariant ==
    /\ pc = "uniq_done"
    /\ CandidatePath(0) \in existing
    /\ CandidatePath(1) \in existing
    /\ Abspath(new_path) = CandidatePath(2)

---------------------------------------------------------------------------
(* generate_file_tree (src/utils.py).  The module's strings are ASCII: the *)
(* box-drawing connectors and the two icons of the source are written      *)
(* "|--- " (U+251C U+2500 x3, space), "L--- " (U+2514 U+2500 x3, space),   *)
(* "|   " (U+2502, three spaces), "[D] " (folder icon, space) and "[F] "   *)
(* (page icon, space).  The nested dict `tree` is the sequence of its      *)
(* entries in the order they were inserted, each with the list of keys     *)
(* leading to it; the entries of one dict, in that dict's insertion order, *)
(* are the subsequence of the entries one key longer than the dict's own.  *)

TeePointer == "|--- "

LastPointer == "L--- "

BarExtension == "|   "

BlankExtension == "    "

DirIcon == "[D] "

FileIcon == "[F] "

\* a name as a string
RECURSIVE StrOf(_)
StrOf(name) == IF name = <<>> THEN "" ELSE Head(name) \o StrOf(Tail(name))

\* os.path.relpath(path, root_dir).split(os.sep), both made absolute first
RelParts(path, root) ==
    LET start == Abspath(root)
        p     == Abspath(RawOf(path))
        common == CHOOSE n \in 0..Len(start) :
                     /\ n <= Len(p)
                     /\ SubSeq(start, 1, n) = SubSeq(p, 1, n)
                     /\ \/ n = Len(start)
                        \/ n = Len(p)
                        \/ start[n + 1] # p[n + 1]
        rel == [i \in 1..(Len(start) - common) |-> DotDot]
               \o SubSeq(p, common + 1, Len(p))
    IN IF rel = <<>> THEN <<Dot>> ELSE rel

HasKey(t, key) == \E i \in 1..Len(t) : t[i].key = key

\* InsertDirs that resets a directory's dict each time a path goes through it
RECURSIVE InsertDirs_ResetDir(_, _, _)
InsertDirs_ResetDir(t, parts, n) ==
    IF n >= Len(parts) THEN t
    ELSE LET key  == SubSeq(parts, 1, n)
             kept == SelectSeq(t, LAMBDA e : ~(IsPrefix(key, e.key) /\ e.key # key))
         IN InsertDirs_ResetDir(
                IF HasKey(t, key) THEN kept ELSE Append(t, [key |-> key, dir |-> TRUE]),
                parts, n + 1)

\* `for part in parts[:-1]`: create the missing dicts from the n-th part on
RECURSIVE InsertDirs(_, _, _)
InsertDirs(t, parts, n) ==
    IF n >= Len(parts) THEN t
    ELSE LET key == SubSeq(parts, 1, n)
         IN InsertDirs(IF HasKey(t, key) THEN t
                       ELSE Append(t, [key |-> key, dir |-> TRUE]),
                       parts, n + 1)

\* `current_level[parts[-1]] = None`: a new key goes last, an old key keeps
\* its place and loses what it held
SetFile(t, parts) ==
    IF HasKey(t, parts)
    THEN LET kept == SelectSeq(t, LAMBDA e : ~(IsPrefix(parts, e.key) /\ e.key # parts))
         IN [i \in 1..Len(kept) |->
                IF kept[i].key = parts THEN [key |-> parts, dir |-> FALSE] ELSE kept[i]]
    ELSE Append(t, [key |-> parts, dir |-> FALSE])

\* lines 72-79 for one path
InsertPath(t, path, root) ==
    LET parts == RelParts(path, root)
    IN SetFile(InsertDirs(t, parts, 1), parts)

\* node.items() of the dict reached by `key`
Items(t, key) ==
    SelectSeq(t, LAMBDA e : Len(e.key) = Len(key) + 1 /\ IsPrefix(key, e.key))

\* SortedItems with the directories first
SortedItems_DirsFirst(t, key) ==
    SelectSeq(Items(t, key), LAMBDA e : e.dir)
    \o SelectSeq(Items(t, key), LAMBDA e : ~e.dir)

\* sorted(node.items(), key=lambda x: x[1] is not None): stable, False first
SortedItems(t, key) ==
    SelectSeq(Items(t, key), LAMBDA e : ~e.dir)
    \o SelectSeq(Items(t, key), LAMBDA e : e.dir)

\* format_tree(node, prefix), from the n-th sorted item of the node on
RECURSIVE FormatTree(_, _, _, _)
FormatTree(t, key, prefix, n) ==
    LET items == SortedItems(t, key) IN
    IF n > Len(items) THEN <<>>
    ELSE LET item    == items[n]
             pointer == IF n <= Len(items) - 1 THEN TeePointer ELSE LastPointer
             icon    == IF item.dir THEN DirIcon ELSE FileIcon
             line    == [key |-> item.key, prefix |-> prefix, pointer |-> pointer,
                         icon |-> icon, name |-> StrOf(item.key[Len(item.key)])]
             ext     == IF pointer = TeePointer THEN BarExtension ELSE BlankExtension
         IN <<line>>
            \o (IF item.dir THEN FormatTree(t, item.key, prefix \o ext, 1) ELSE <<>>)
            \o FormatTree(t, key, prefix, n + 1)

\* f"{prefix}{pointer}{icon}{name}"
LineText(line) == line.prefix \o line.pointer \o line.icon \o line.name

\* "\n".join(lines)
RECURSIVE JoinLines(_)
JoinLines(lines) ==
    IF lines = <<>> THEN ""
    ELSE IF Len(lines) = 1 THEN lines[1]
         ELSE lines[1] \o "\n" \o JoinLines(Tail(lines))

\* os.path.basename of a raw path: what follows the last separator
RawBasename(raw) == IF raw = <<>> THEN "" ELSE StrOf(raw[Len(raw)])

\* lines 69-87 as a whole: the dict built from the list
RECURSIVE BuildTree(_, _, _)
BuildTree(t, paths, root) ==
    IF paths = <<>> THEN t
    ELSE BuildTree(InsertPath(t, Head(paths), root), Tail(paths), root)

\* line 102 and 104: the text of tree_lines
TreeText(root, lines) ==
    JoinLines(<<RawBasename(root)>> \o [i \in 1..Len(lines) |-> LineText(lines[i])])

\* generate_file_tree as a function of its arguments
GenerateFileTree(root, paths) ==
    TreeText(root, FormatTree(BuildTree(<<>>, paths, root), <<>>, "", 1))

\* lines 68-69
TreeStart ==
    /\ pc = "tree_start"
    /\ log_queue' = Append(log_queue, <<"tree_start">>)
    /\ tree' = <<>>
    /\ path_idx' = 1
    /\ pc' = "tree_build"
    /\ UNCHANGED <<root_dir, file_paths, tree_lines, tree_string, exceptTree>>

\* one iteration of `for path in file_paths`
TreeInsert ==
    /\ pc = "tree_build"
    /\ path_idx <= Len(file_paths)
    /\ tree' = InsertPath(tree, file_paths[path_idx], root_dir)
    /\ path_idx' = path_idx + 1
    /\ UNCHANGED <<pc, log_queue, root_dir, file_paths, tree_lines, tree_string,
                   exceptTree>>

\* lines 102-104: format, log, join
TreeReturn ==
    /\ pc = "tree_build"
    /\ path_idx > Len(file_paths)
    /\ tree_lines' = FormatTree(tree, <<>>, "", 1)
    /\ tree_string' = TreeText(root_dir, tree_lines')
    /\ log_queue' = Append(log_queue, <<"tree_done">>)
    /\ pc' = "tree_done"
    /\ UNCHANGED <<root_dir, file_paths, tree, path_idx, exceptTree>>

\* ---- the inputs of generate_file_tree: lists of distinct regular files of
\* one filesystem below the root (no path is a prefix of another)

RootDirs == {RawOf(Cwd \o <<n_r>>), RawOf(Cwd \o <<n_r>>) \o <<E>>}

TreeRelFiles ==
    {d \o <<f>> : d \in {<<>>, <<n_v>>, <<n_s>>, <<n_s, n_V>>}, f \in {f_mp, f_nt}}

RECURSIVE ListsOver(_, _)
ListsOver(S, n) ==
    IF n = 0 THEN {<<>>}
    ELSE LET shorter == ListsOver(S, n - 1)
         IN shorter \cup {Append(l, x) : l \in {m \in shorter : Len(m) = n - 1}, x \in S}

IsInjective(l) == \A i, j \in 1..Len(l) : l[i] = l[j] => i = j

PathLists(root) ==
    {l \in ListsOver({Abspath(root) \o r : r \in TreeRelFiles}, MaxPaths) : IsInjective(l)}

InitTree ==
    /\ ApiIdle
    /\ GuiIdle
    /\ FindIdle
    /\ UniqIdle
    /\ AggIdle
    /\ pc = "tree_start"
    /\ log_queue = <<>>
    /\ root_dir \in RootDirs
    /\ file_paths \in PathLists(root_dir)
    /\ tree = <<>>
    /\ path_idx = 0
    /\ tree_lines = <<>>
    /\ tree_string = ""

NextTree == TreeStart \/ TreeInsert \/ TreeReturn

SpecTree == InitTree /\ [][NextTree]_vars

---------------------------------------------------------------------------
(* Claims about generate_file_tree.                                        *)

\* the orderings of a list of distinct elements
Orderings(l) ==
    {q \in [1..Len(l) -> Range(l)] : \A i, j \in 1..Len(l) : q[i] = q[j] => i = j}

\* the lines format_tree gives for a list
LinesOf(l) == FormatTree(BuildTree(<<>>, l, root_dir), <<>>, "", 1)

\* what a rendering shows, whatever the order: each entry's place in the
\* hierarchy, its icon, its name and its depth
EntriesOf(lines) ==
    {[key |-> lines[i].key, icon |-> lines[i].icon, name |-> lines[i].name,
      depth |-> Len(lines[i].prefix)] : i \in 1..Len(lines)}

\* the relative path of the i-th element of a list, split
PartsAt(l, i) == RelParts(l[i], root_dir)

\* every entry a list gives rise to: the non-empty prefixes of its paths
KeysOf(l) ==
    UNION {{SubSeq(PartsAt(l, i), 1, n) : n \in 1..Len(PartsAt(l, i))} : i \in 1..Len(l)}

\* a key is a directory when a path goes through it
IsDirKey(l, key) == \E i \in 1..Len(l) : IsPrefix(key, PartsAt(l, i)) /\ PartsAt(l, i) # key

\* the position in the list of the path that first inserted the key
FirstIdx(l, key) ==
    CHOOSE i \in 1..Len(l) :
        /\ IsPrefix(key, PartsAt(l, i))
        /\ \A j \in 1..(i - 1) : ~IsPrefix(key, PartsAt(l, j))

Siblings(a, b) ==
    /\ a # b
    /\ Len(a) = Len(b)
    /\ SubSeq(a, 1, Len(a) - 1) = SubSeq(b, 1, Len(b) - 1)

\* two orderings insert the files of every level in the same relative order,
\* and the directories of every level in the same relative order
SameInsertionOrder(l, q) ==
    \A a, b \in KeysOf(l) :
        (Siblings(a, b) /\ (IsDirKey(l, a) <=> IsDirKey(l, b)))
        => (FirstIdx(l, a) < FirstIdx(l, b) <=> FirstIdx(q, a) < FirstIdx(q, b))

\* C5 as stated: every ordering of the same paths renders the same string.
Orig_C5_OrderIndependent ==
    pc = "tree_done" =>
        \A q \in Orderings(file_paths) : GenerateFileTree(root_dir, q) = tree_string

\* C5 amended: every ordering of the same paths renders the same entries
\* (same names, kinds, depths and parents, as many lines), and renders the
\* same string whenever it inserts the files of each level, and the
\* directories of each level, in the same relative order; otherwise the
\* order of siblings, and with it the string, may differ.
Thm_C5_SameEntriesAnyOrder ==
    pc = "tree_done" =>
        \A q \in Orderings(file_paths) :
            /\ EntriesOf(LinesOf(q)) = EntriesOf(tree_lines)
            /\ Len(LinesOf(q)) = Len(tree_lines)
            /\ SameInsertionOrder(file_paths, q)
                  => GenerateFileTree(root_dir, q) = tree_string

\* C5 witness: a rendered list has another ordering that renders the same
\* string and a third that renders a different one.
Wit_C5_TwoOrderings ==
    /\ pc = "tree_done"
    /\ \E q \in Orderings(file_paths) :
          /\ q # file_paths
          /\ SameInsertionOrder(file_paths, q)
          /\ GenerateFileTree(root_dir, q) = tree_string
    /\ \E q \in Orderings(file_paths) : GenerateFileTree(root_dir, q) # tree_string

\* the lines of two entries of the same level
SiblingLines(i, j) == Siblings(tree_lines[i].key, tree_lines[j].key)

\* C6: the output has one line per entry; at every level the files come
\* before the directories; the files of a level, and its directories, are in
\* the order of their first insertion from the list; exactly the last line of
\* a level has the last-child connector and all others the mid-list one.
Thm_C6_FilesFirstInsertionOrder ==
    pc = "tree_done" =>
        /\ {tree_lines[i].key : i \in 1..Len(tree_lines)} = KeysOf(file_paths)
        /\ Len(tree_lines) = Cardinality(KeysOf(file_paths))
        /\ \A i \in 1..Len(tree_lines) :
              /\ tree_lines[i].icon =
                    (IF IsDirKey(file_paths, tree_lines[i].key) THEN DirIcon ELSE FileIcon)
              /\ tree_lines[i].pointer =
                    (IF \E j \in (i + 1)..Len(tree_lines) : SiblingLines(i, j)
                     THEN TeePointer ELSE LastPointer)
        /\ \A i, j \in 1..Len(tree_lines) :
              (i < j /\ SiblingLines(i, j)) =>
                  /\ ~(tree_lines[i].icon = DirIcon /\ tree_lines[j].icon = FileIcon)
                  /\ tree_lines[i].icon = tree_lines[j].icon =>
                        FirstIdx(file_paths, tree_lines[i].key)
                            < FirstIdx(file_paths, tree_lines[j].key)

\* C6 witness: n.t was listed before m.p and is drawn above it, and a
\* directory listed before both is drawn below them, with the last connector.
Wit_C6_FileAboveEarlierDir ==
    /\ pc = "tree_done"
    /\ \E i, j, k \in 1..Len(tree_lines) :
          /\ i < j /\ j < k
          /\ SiblingLines(i, j) /\ SiblingLines(j, k)
          /\ tree_lines[i].name = "n.t" /\ tree_lines[j].name = "m.p"
          /\ tree_lines[k].icon = DirIcon
          /\ tree_lines[k].pointer = LastPointer
          /\ FirstIdx(file_paths, tree_lines[k].key) < FirstIdx(file_paths, tree_lines[i].key)

---------------------------------------------------------------------------
(* aggregate_code (src/utils.py).  Text is a sequence of units: a unit is  *)
(* "\n", "\r" or a piece of text without a line break; a line is the       *)
(* concatenation of the pieces between two "\n".  One output_file.write    *)
(* call writes one chunk, a sequence of units.  The Chinese labels of the  *)
(* source are written in ASCII: "ROOT: " for the root-directory label,     *)
(* "TOTAL n FILES" for the file count, "TREE:" for the tree heading,       *)
(* "PATH: " for the file-path label, "!!! READ ERROR: p -> e !!!" for the  *)
(* error marker; three backquotes are written "^^^".                       *)

NL == "\n"

CR == "\r"

Fence == "^^^"

Eq80 == "================================================================================"

Dash80 == "--------------------------------------------------------------------------------"

\* the string of a raw path: its segments joined by the separator
RECURSIVE RawStr(_)
RawStr(raw) ==
    IF raw = <<>> THEN ""
    ELSE IF Len(raw) = 1 THEN StrOf(raw[1])
         ELSE StrOf(raw[1]) \o "/" \o RawStr(Tail(raw))

\* the string of an absolute path
PathStr(abs) == RawStr(RawOf(abs))

\* os.path.dirname of a raw path
Dirname(raw) == IF raw = <<>> THEN <<>> ELSE SubSeq(raw, 1, Len(raw) - 1)

\* os.path.splitext(path)[1]: from the last dot of the basename, unless only
\* dots precede it
SplitextExt(name) ==
    LET dots == {k \in 1..Len(name) : name[k] = "."} IN
    IF dots = {} THEN <<>>
    ELSE LET last == CHOOSE k \in dots : \A m \in dots : m <= k
         IN IF \E m \in 1..(last - 1) : name[m] # "."
            THEN SubSeq(name, last, Len(name))
            ELSE <<>>

\* str.lstrip(".")
RECURSIVE LStripDots(_)
LStripDots(name) ==
    IF name # <<>> /\ Head(name) = "." THEN LStripDots(Tail(name)) ELSE name

\* lang = os.path.splitext(file_path)[1].lstrip(".")
Lang(path) == StrOf(LStripDots(SplitextExt(path[Len(path)])))

\* input_file.read() in text mode: "\r\n" and "\r" are read as "\n"
RECURSIVE ReadText(_)
ReadText(raw) ==
    IF raw = <<>> THEN <<>>
    ELSE IF Head(raw) = CR
         THEN IF Len(raw) >= 2 /\ raw[2] = NL
              THEN <<NL>> \o ReadText(Tail(Tail(raw)))
              ELSE <<NL>> \o ReadText(Tail(raw))
         ELSE <<Head(raw)>> \o ReadText(Tail(raw))

\* the lines of a list as units: "\n".join
RECURSIVE JoinUnits(_)
JoinUnits(lines) ==
    IF lines = <<>> THEN <<>>
    ELSE IF Len(lines) = 1 THEN <<lines[1]>>
         ELSE <<lines[1], NL>> \o JoinUnits(Tail(lines))

\* the string generate_file_tree returns, as units
TreeUnits(root, paths) ==
    LET lines == FormatTree(BuildTree(<<>>, paths, root), <<>>, "", 1)
    IN JoinUnits(<<RawBasename(root)>> \o [k \in 1..Len(lines) |-> LineText(lines[k])])

\* lines 158-161: the four writes of the header
HeaderChunks(root, total) ==
    << <<Eq80, NL>>,
       <<"ROOT: " \o RawStr(root), NL>>,
       <<"TOTAL " \o StrOf(IntToStr(total)) \o " FILES", NL>>,
       <<Eq80, NL, NL>> >>

\* lines 165-167: the three writes of the tree section
TreeChunks(root, paths) ==
    << <<"TREE:", NL>>, TreeUnits(root, paths), <<NL, NL, Eq80, NL, NL>> >>

\* lines 173-175: the three writes of a file's path block
PathBlockChunks(path) ==
    << <<Dash80, NL>>, <<"PATH: " \o PathStr(path), NL>>, <<Dash80, NL, NL>> >>

\* line 187: "\n```\n\n"
MdCloseChunk == <<NL, Fence, NL, NL>>

\* lines 183-190: the writes of a file's content
ContentChunks(path, content, format) ==
    IF format = <<".", "m", "d">>
    THEN << <<Fence \o Lang(path), NL>>, content, MdCloseChunk >>
    ELSE << content, <<NL, NL>> >>

\* line 193: error_message
ErrorMessage(path, err) ==
    <<"!!! READ ERROR: " \o PathStr(path) \o " -> " \o err \o " !!!", NL, NL>>

\* does the n-th output write call raise
WriteFails(n) ==
    /\ fail_at # 0
    /\ \/ n = fail_at
       \/ fail_persistent /\ n >= fail_at

\* the write calls of `chunks` in turn, up to the first that raises
RECURSIVE DoWrites(_, _, _)
DoWrites(out, calls, chunks) ==
    IF chunks = <<>> THEN [out |-> out, calls |-> calls, ok |-> TRUE]
    ELSE IF WriteFails(calls + 1)
         THEN [out |-> out, calls |-> calls + 1, ok |-> FALSE]
         ELSE DoWrites(out \o Head(chunks), calls + 1, Tail(chunks))

\* ProgressValue without the factor 100
ProgressValue_Fraction(i, total) == [num |-> i + 1, den |-> total]

\* line 171: (i + 1) / total_files * 100, as an exact ratio
ProgressValue(i, total) == [num |-> (i + 1) * 100, den |-> total]

\* line 141
total_files == Len(file_paths)

\* lines 200-201: the handler of an IOError raised inside the outer try
FatalLog == <<"write_error", output_filename>>

\* what the steps after the directory check leave alone
aggFixed == <<existing, exceptAgg>>

\* CurrentPath taking the list from its end
CurrentPath_Reversed == file_paths[Len(file_paths) - file_idx]

\* the path of the file being processed
CurrentPath == file_paths[file_idx + 1]

\* lines 145-146: the output directory exists
AggDirExists ==
    /\ pc = "agg_start"
    /\ PathExists(Dirname(output_filename))
    /\ pc' = "agg_open"
    /\ UNCHANGED <<log_queue, write_calls, output_file, opened, progress_queue,
                   file_idx, result, aggFixed>>

\* lines 146-149: the output directory is missing and is created
AggMakeDir ==
    /\ pc = "agg_start"
    /\ ~PathExists(Dirname(output_filename))
    /\ Dirname(output_filename) # <<>> /\ can_mkdir
    /\ existing' = existing \cup {Abspath(Dirname(output_filename))}
    /\ log_queue' = Append(log_queue, <<"mkdir", Dirname(output_filename)>>)
    /\ pc' = "agg_open"
    /\ UNCHANGED <<write_calls, output_file, opened, progress_queue, file_idx, result,
                   exceptAgg>>

\* AggMakeDirFails without its return: the run goes on to open the output
AggMakeDirFails_Continue ==
    /\ pc = "agg_start"
    /\ ~PathExists(Dirname(output_filename))
    /\ ~(Dirname(output_filename) # <<>> /\ can_mkdir)
    /\ log_queue' = Append(log_queue, <<"mkdir_failed", Dirname(output_filename)>>)
    /\ pc' = "agg_open"
    /\ UNCHANGED <<write_calls, output_file, opened, progress_queue, file_idx, result,
                   aggFixed>>

\* lines 146-152: os.makedirs raises (always for the empty name): return False
AggMakeDirFails ==
    /\ pc = "agg_start"
    /\ ~PathExists(Dirname(output_filename))
    /\ ~(Dirname(output_filename) # <<>> /\ can_mkdir)
    /\ log_queue' = Append(log_queue, <<"mkdir_failed", Dirname(output_filename)>>)
    /\ result' = "False"
    /\ pc' = "agg_done"
    /\ UNCHANGED <<write_calls, output_file, opened, progress_queue, file_idx, aggFixed>>

\* lines 155-156: the output is created or truncated
AggOpen ==
    /\ pc = "agg_open"
    /\ can_open
    /\ opened' = TRUE
    /\ output_file' = <<>>
    /\ existing' = existing \cup {Abspath(output_filename)}
    /\ log_queue' = Append(log_queue, <<"creating", output_filename>>)
    /\ pc' = "agg_header"
    /\ UNCHANGED <<write_calls, progress_queue, file_idx, result, exceptAgg>>

\* lines 155, 200-201: open raises, the outer handler logs, None is returned
AggOpenFails ==
    /\ pc = "agg_open"
    /\ ~can_open
    /\ log_queue' = Append(log_queue, FatalLog)
    /\ result' = "None"
    /\ pc' = "agg_done"
    /\ UNCHANGED <<write_calls, output_file, opened, progress_queue, file_idx, aggFixed>>

\* lines 158-161
AggHeader ==
    /\ pc = "agg_header"
    /\ LET r == DoWrites(output_file, write_calls, HeaderChunks(root_dir, total_files))
       IN /\ output_file' = r.out
          /\ write_calls' = r.calls
          /\ IF r.ok
             THEN pc' = "agg_tree" /\ UNCHANGED <<log_queue, result>>
             ELSE /\ log_queue' = Append(log_queue, FatalLog)
                  /\ result' = "None"
                  /\ pc' = "agg_done"
    /\ UNCHANGED <<opened, progress_queue, file_idx, aggFixed>>

\* lines 163-167: the list is not empty
AggTree ==
    /\ pc = "agg_tree"
    /\ file_paths # <<>>
    /\ LET r == DoWrites(output_file, write_calls, TreeChunks(root_dir, file_paths))
           logged == log_queue \o << <<"tree_start">>, <<"tree_done">> >>
       IN /\ output_file' = r.out
          /\ write_calls' = r.calls
          /\ IF r.ok
             THEN pc' = "agg_loop" /\ log_queue' = logged /\ UNCHANGED result
             ELSE /\ log_queue' = Append(logged, FatalLog)
                  /\ result' = "None"
                  /\ pc' = "agg_done"
    /\ file_idx' = 0
    /\ UNCHANGED <<opened, progress_queue, aggFixed>>

\* line 163: the list is empty
AggNoTree ==
    /\ pc = "agg_tree"
    /\ file_paths = <<>>
    /\ pc' = "agg_loop"
    /\ file_idx' = 0
    /\ UNCHANGED <<log_queue, write_calls, output_file, opened, progress_queue, result,
                   aggFixed>>

\* lines 169-175: the log line, the progress value, the path block
AggFileBegin ==
    /\ pc = "agg_loop"
    /\ file_idx < total_files
    /\ progress_queue' = Append(progress_queue, ProgressValue(file_idx, total_files))
    /\ LET r == DoWrites(output_file, write_calls, PathBlockChunks(CurrentPath))
           logged == Append(log_queue, <<"writing", file_idx + 1, total_files, CurrentPath>>)
       IN /\ output_file' = r.out
          /\ write_calls' = r.calls
          /\ IF r.ok
             THEN pc' = "agg_read" /\ log_queue' = logged /\ UNCHANGED result
             ELSE /\ log_queue' = Append(logged, FatalLog)
                  /\ result' = "None"
                  /\ pc' = "agg_done"
    /\ UNCHANGED <<opened, file_idx, aggFixed>>

\* the inner handler (lines 192-195) after `err` was raised with `out` written
\* and `calls` write calls made: log the message, write it
InnerHandler(out, calls, err) ==
    LET msg == ErrorMessage(CurrentPath, err)
        r   == DoWrites(out, calls, <<msg>>)
        logged == Append(log_queue, <<"read_error", msg>>)
    IN /\ output_file' = r.out
       /\ write_calls' = r.calls
       /\ IF r.ok
          THEN /\ log_queue' = logged
               /\ file_idx' = file_idx + 1
               /\ pc' = "agg_loop"
               /\ UNCHANGED result
          ELSE /\ log_queue' = Append(logged, FatalLog)
               /\ result' = "None"
               /\ pc' = "agg_done"
               /\ UNCHANGED file_idx

\* AggFileUnreadable that lets the exception end the run
AggFileUnreadable_Abort ==
    /\ pc = "agg_read"
    /\ ~input_files[CurrentPath].readable
    /\ log_queue' = Append(log_queue, FatalLog)
    /\ result' = "None"
    /\ pc' = "agg_done"
    /\ UNCHANGED <<write_calls, output_file, opened, progress_queue, file_idx, aggFixed>>

\* lines 177-181, 192-195: open or read raises
AggFileUnreadable ==
    /\ pc = "agg_read"
    /\ ~input_files[CurrentPath].readable
    /\ InnerHandler(output_file, write_calls, "ENOENT")
    /\ UNCHANGED <<opened, progress_queue, aggFixed>>

\* lines 177-190: the file is read and written; a write that raises here is
\* caught by the inner handler too
AggFileRead ==
    /\ pc = "agg_read"
    /\ input_files[CurrentPath].readable
    /\ LET content == ReadText(input_files[CurrentPath].raw)
           r == DoWrites(output_file, write_calls,
                         ContentChunks(CurrentPath, content, output_format))
       IN IF r.ok
          THEN /\ output_file' = r.out
               /\ write_calls' = r.calls
               /\ file_idx' = file_idx + 1
               /\ pc' = "agg_loop"
               /\ UNCHANGED <<log_queue, result>>
          ELSE InnerHandler(r.out, r.calls, "ENOSPC")
    /\ UNCHANGED <<opened, progress_queue, aggFixed>>

\* lines 197-199: the summary line; the function ends without a return value
AggFinish ==
    /\ pc = "agg_loop"
    /\ file_idx = total_files
    /\ log_queue' = Append(log_queue, <<"all_done", RawBasename(output_filename)>>)
    /\ result' = "None"
    /\ pc' = "agg_done"
    /\ UNCHANGED <<write_calls, output_file, opened, progress_queue, file_idx, aggFixed>>

\* ---- the inputs of aggregate_code

AggRoot == RawOf(Cwd \o <<n_r>>)

f_k == <<"k">>

AggCandidates == {Cwd \o <<n_r, f_mp>>, Cwd \o <<n_r, n_s, f_nt>>, Cwd \o <<n_r, n_s, f_k>>}

AggLists == {l \in ListsOver(AggCandidates, MaxAggFiles) : IsInjective(l)}

OutName == <<"o", "u", "t", ".", "m", "d">>

OutDirAbs == Cwd \o << <<"o">> >>

OutputPaths == {RawOf(OutDirAbs \o <<OutName>>), <<OutName>>}

\* an input file with nothing special in it
PlainContent == <<"x", NL>>

\* what an input file may hold: a letter, line ends, a fence, the marker text
\* of a listed file
ContentAlphabet == {"x", NL, CR, Fence, "PATH: " \o PathStr(Cwd \o <<n_r, n_s, f_k>>)}

\* what the old output file held, if there was one
OldOutput == <<"old", NL>>

\* one listed file holds any text, the output can be written
InitAggText ==
    /\ file_paths \in AggLists \ {<<>>}
    /\ \E k \in 1..Len(file_paths) :
          \E c \in ListsOver(ContentAlphabet, MaxContentLen) :
              input_files = [p \in Range(file_paths) |->
                                [readable |-> TRUE,
                                 raw |-> IF p = file_paths[k] THEN c ELSE PlainContent]]
    /\ output_format = <<".", "m", "d">>
    /\ output_filename = RawOf(OutDirAbs \o <<OutName>>)
    /\ existing = {OutDirAbs}
    /\ can_mkdir = TRUE
    /\ can_open = TRUE
    /\ fail_at = 0
    /\ fail_persistent = FALSE

\* any output path, with its directory and the file there or not, creatable
\* and openable or not
InitAggEnv ==
    /\ file_paths \in AggLists
    /\ input_files = [p \in Range(file_paths) |-> [readable |-> TRUE, raw |-> PlainContent]]
    /\ output_format \in OutputFormats
    /\ output_filename \in OutputPaths
    /\ existing \in {{}, {OutDirAbs}, {OutDirAbs, OutDirAbs \o <<OutName>>},
                     {Cwd \o <<OutName>>}}
    /\ can_mkdir \in BOOLEAN
    /\ can_open \in BOOLEAN
    /\ fail_at = 0
    /\ fail_persistent = FALSE

\* any listed file unreadable, any output write call failing, once or for good
InitAggFaults ==
    /\ file_paths \in AggLists
    /\ \E unreadable \in SUBSET Range(file_paths) :
          input_files = [p \in Range(file_paths) |->
                            [readable |-> p \notin unreadable, raw |-> PlainContent]]
    /\ output_format \in OutputFormats
    /\ output_filename = RawOf(OutDirAbs \o <<OutName>>)
    /\ existing = {OutDirAbs}
    /\ can_mkdir = TRUE
    /\ can_open = TRUE
    /\ fail_at \in 0..(7 + 6 * Len(file_paths))
    /\ fail_persistent \in (IF fail_at = 0 THEN {FALSE} ELSE BOOLEAN)

InitAgg ==
    /\ ApiIdle
    /\ GuiIdle
    /\ FindIdle
    /\ output_dir = <<>> /\ filename = <<>> /\ extension = <<>>
    /\ counter = 0 /\ new_path = <<>>
    /\ tree = <<>> /\ path_idx = 0 /\ tree_lines = <<>> /\ tree_string = ""
    /\ pc = "agg_start"
    /\ log_queue = <<>>
    /\ root_dir = AggRoot
    /\ InitAggText \/ InitAggEnv \/ InitAggFaults
    /\ write_calls = 0
    /\ output_file = (IF Abspath(output_filename) \in existing THEN OldOutput ELSE <<>>)
    /\ opened = FALSE
    /\ progress_queue = <<>>
    /\ file_idx = 0
    /\ result = "unset"

NextAgg ==
    \/ AggDirExists \/ AggMakeDir \/ AggMakeDirFails
    \/ AggOpen \/ AggOpenFails
    \/ AggHeader
    \/ AggTree \/ AggNoTree
    \/ AggFileBegin \/ AggFileRead \/ AggFileUnreadable
    \/ AggFinish

SpecAgg == InitAgg /\ [][NextAgg]_vars

(***************************************************************************)
(* Properties of aggregate_code.                                           *)
(***************************************************************************)

\* the run reached its summary line
Completed ==
    /\ pc = "agg_done"
    /\ log_queue # <<>>
    /\ log_queue[Len(log_queue)][1] = "all_done"

\* the units of a list of chunks, in order
RECURSIVE FlattenChunks(_)
FlattenChunks(chunks) ==
    IF chunks = <<>> THEN <<>> ELSE Head(chunks) \o FlattenChunks(Tail(chunks))

HeaderText == FlattenChunks(HeaderChunks(root_dir, Len(file_paths)))

\* the output path can be written: the directory that will hold the file is
\* there or can be created (for a bare file name it is the working
\* directory), the file can be opened and no write fails
WritableOutput ==
    /\ \/ Dirname(output_filename) = <<>>
       \/ Abspath(Dirname(output_filename)) \in existing
       \/ can_mkdir
    /\ can_open
    /\ fail_at = 0

\* C7 as stated: with an empty file list and a writable output path the run
\* completes, the output is exactly the header, and nothing is pushed to the
\* progress sink.
Orig_C7_EmptyListHeaderOnly ==
    (pc = "agg_done" /\ file_paths = <<>> /\ WritableOutput) =>
        /\ Completed
        /\ output_file = HeaderText
        /\ progress_queue = <<>>

\* an empty list written to a path with a directory part: header only
Wit_C7_HeaderOnlyInDirectory ==
    /\ Completed
    /\ file_paths = <<>>
    /\ Dirname(output_filename) # <<>>
    /\ output_file = HeaderText
    /\ progress_queue = <<>>

\* what the run writes for the k-th file of the list
FileBlock(k) ==
    LET p == file_paths[k] IN
    FlattenChunks(PathBlockChunks(p)) \o
    (IF input_files[p].readable
     THEN FlattenChunks(ContentChunks(p, ReadText(input_files[p].raw), output_format))
     ELSE ErrorMessage(p, "ENOENT"))

\* the blocks of the first n files
RECURSIVE FileBlocks(_)
FileBlocks(n) == IF n = 0 THEN <<>> ELSE FileBlocks(n - 1) \o FileBlock(n)

TreeText_Agg ==
    IF file_paths = <<>> THEN <<>> ELSE FlattenChunks(TreeChunks(root_dir, file_paths))

\* C8: whatever files of the list cannot be read, a run whose output was
\* opened and took every write reaches its summary line, and its output is
\* the header, the tree, and for every file of the list in order the path
\* block followed by the text read from the file or by the error marker;
\* between two files the output holds the blocks of the files done so far.
Thm_C8_UnreadableFilesDoNotAbort ==
    (opened /\ fail_at = 0) =>
        /\ pc = "agg_loop" => output_file = HeaderText \o TreeText_Agg \o FileBlocks(file_idx)
        /\ pc = "agg_done" =>
              /\ Completed
              /\ output_file = HeaderText \o TreeText_Agg \o FileBlocks(Len(file_paths))

\* a finished run over an unreadable file followed by a readable one
Wit_C8_ReadableAfterUnreadable ==
    /\ Completed
    /\ fail_at = 0
    /\ Len(file_paths) = 2
    /\ ~input_files[file_paths[1]].readable
    /\ input_files[file_paths[2]].readable
    /\ output_file = HeaderText \o TreeText_Agg \o FileBlock(1) \o FileBlock(2)

\* the string of a text
RECURSIVE Concat(_)
Concat(units) == IF units = <<>> THEN "" ELSE Head(units) \o Concat(Tail(units))

\* str.split("\n") of a text, `cur` being the line collected so far
RECURSIVE SplitLines(_, _)
SplitLines(units, cur) ==
    IF units = <<>> THEN <<cur>>
    ELSE IF Head(units) = NL
         THEN <<cur>> \o SplitLines(Tail(units), "")
         ELSE SplitLines(Tail(units), cur \o Head(units))

\* "\n".join of lines
RECURSIVE JoinStr(_)
JoinStr(lines) ==
    IF lines = <<>> THEN ""
    ELSE IF Len(lines) = 1 THEN lines[1]
         ELSE lines[1] \o NL \o JoinStr(Tail(lines))

\* the least index above `from` whose line equals `line`, 0 if there is none
IndexAfter(lines, from, line) ==
    LET hits == {i \in (from + 1)..Len(lines) : lines[i] = line}
    IN IF hits = {} THEN 0 ELSE CHOOSE i \in hits : \A j \in hits : i <= j

\* the text of the fenced block that follows the marker of `path` in `out`:
\* from the first fence line of the file's language after the first marker
\* line, up to the next closing fence line
Extract(out, path) ==
    LET lines == SplitLines(out, "")
        m == IndexAfter(lines, 0, "PATH: " \o PathStr(path))
        o == IF m = 0 THEN 0 ELSE IndexAfter(lines, m, Fence \o Lang(path))
        c == IF o = 0 THEN 0 ELSE IndexAfter(lines, o, Fence)
    IN IF c = 0 THEN [found |-> FALSE, text |-> ""]
       ELSE [found |-> TRUE, text |-> JoinStr(SubSeq(lines, o + 1, c - 1))]

\* a finished markdown run over readable files
MarkdownRun ==
    /\ Completed
    /\ output_format = <<".", "m", "d">>
    /\ fail_at = 0
    /\ \A p \in Range(file_paths) : input_files[p].readable

\* C9 as stated: after a markdown run over readable files, the fenced block
\* after each file's path marker is exactly the file's content, whatever the
\* content.
Orig_C9_RoundTrip ==
    MarkdownRun =>
        \A p \in Range(file_paths) :
            Extract(output_file, p) = [found |-> TRUE, text |-> Concat(input_files[p].raw)]

\* a markdown run over two files whose contents come back
Wit_C9_TwoFilesRoundTrip ==
    /\ MarkdownRun
    /\ Len(file_paths) = 2
    /\ \A p \in Range(file_paths) :
           Extract(output_file, p) = [found |-> TRUE, text |-> Concat(input_files[p].raw)]

FilesBegun ==
    IF pc = "agg_loop" THEN file_idx
    ELSE IF pc = "agg_read" THEN file_idx + 1
    ELSE Len(progress_queue)

DirMissingNotCreatable ==
    /\ Dirname(output_filename) # <<>>
    /\ Abspath(Dirname(output_filename)) \notin existing
    /\ ~can_mkdir

\* C11: when the output directory is missing and cannot be created, the run
\* never gets to opening the output: it ends with the failure logged as its
\* only log line and the result False, no file at the output path, no write
\* call made, nothing written and nothing pushed to the progress sink.
Thm_C11_NoDirectoryNoOutput ==
    DirMissingNotCreatable =>
        /\ pc \in {"agg_start", "agg_done"}
        /\ ~opened
        /\ Abspath(output_filename) \notin existing
        /\ write_calls = 0
        /\ output_file = <<>>
        /\ progress_queue = <<>>
        /\ pc = "agg_done" =>
              /\ result = "False"
              /\ log_queue = << <<"mkdir_failed", Dirname(output_filename)>> >>

\* a run over a non-empty list ended by the directory that cannot be created
Wit_C11_AbortedBeforeOpen ==
    /\ DirMissingNotCreatable
    /\ pc = "agg_done"
    /\ result = "False"
    /\ file_paths # <<>>
    /\ can_open

(***************************************************************************)
(* CodeAggregatorAPI (src/code_aggregator_api.py): aggregate_directory and *)
(* generate_tree_only call find_files, get_unique_filepath,                *)
(* generate_file_tree and aggregate_code of src/utils.py; their steps are   *)
(* the actions above.  extensions and ignore_items are given by the caller. *)
(***************************************************************************)

\* what the methods' own steps leave alone
apiFixed == <<fs_files, unreadable_dirs, directory, extensions, ignore_items, walk_stack, found_files_list,
              counter, tree, path_idx, tree_lines, tree_string,
              output_format, input_files, can_mkdir, can_open, fail_at, fail_persistent,
              write_calls, opened, progress_queue, file_idx, result,
              api_entry, api_output_file, auto_rename, verbose, guiVars>>

\* os.path.isdir: a directory is a proper prefix of a regular file's path
IsDir(raw) ==
    \E f \in fs_files : IsPrefix(Abspath(raw), f) /\ Len(f) > Len(Abspath(raw))

\* os.path.basename of a raw path, as a name
BasenameName(raw) == raw[Len(raw)]

\* os.path.splitext(name)[0]
SplitextRoot(name) == SubSeq(name, 1, Len(name) - Len(SplitextExt(name)))

SummaryName == <<"c", "o", "d", "e", "_", "s", "u", "m", "m", "a", "r", "y">>

\* lines 67-68: output_file, <<>> standing for None
OutputFileArg ==
    IF api_output_file = <<>>
    THEN PathJoin(RawOf(Cwd), SummaryName \o output_format)
    ELSE api_output_file

\* _print_queue_messages and print, when verbose
PrintedAfter(messages) == IF verbose THEN printed \o messages ELSE printed

\* the log queue after _print_queue_messages, when verbose
DrainedLog == IF verbose THEN <<>> ELSE log_queue

\* the text at a path before the output is opened there
TextAt(raw) == IF Abspath(raw) \in existing THEN OldOutput ELSE <<>>

\* lines 71-74: the directory does not exist
ApiDirMissing ==
    /\ pc = "api_start"
    /\ api_entry = "aggregate_directory"
    /\ ~IsDir(directory)
    /\ printed' = PrintedAfter(<< <<"dir_missing", directory>> >>)
    /\ api_result' = "None"
    /\ pc' = "api_done"
    /\ UNCHANGED <<log_queue, existing, output_dir, filename, extension, new_path,
                   root_dir, file_paths, output_filename, output_file,
                   final_output_path, apiFixed>>

\* lines 71, 77-82: the directory exists, find_files is called
ApiFind ==
    /\ pc = "api_start"
    /\ api_entry = "aggregate_directory"
    /\ IsDir(directory)
    /\ pc' = "find_start"
    /\ UNCHANGED <<log_queue, printed, api_result, existing, output_dir, filename,
                   extension, new_path, root_dir, file_paths, output_filename,
                   output_file, final_output_path, apiFixed>>

\* lines 85-91: nothing was found
ApiNoFiles ==
    /\ pc = "find_done"
    /\ api_entry = "aggregate_directory"
    /\ found_files_list = <<>>
    /\ printed' = PrintedAfter(log_queue \o << <<"no_files">> >>)
    /\ log_queue' = DrainedLog
    /\ api_result' = "None"
    /\ pc' = "api_done"
    /\ UNCHANGED <<existing, output_dir, filename, extension, new_path,
                   root_dir, file_paths, output_filename, output_file,
                   final_output_path, apiFixed>>

\* lines 85-101: auto_rename, get_unique_filepath is called
ApiResolve ==
    /\ pc = "find_done"
    /\ api_entry = "aggregate_directory"
    /\ found_files_list # <<>>
    /\ auto_rename
    /\ printed' = PrintedAfter(log_queue)
    /\ log_queue' = DrainedLog
    /\ output_dir' = (IF Dirname(OutputFileArg) # <<>> THEN Dirname(OutputFileArg)
                      ELSE RawOf(Cwd))
    /\ filename' = SplitextRoot(BasenameName(OutputFileArg))
    /\ extension' = (IF SplitextExt(BasenameName(OutputFileArg)) # <<>>
                     THEN SplitextExt(BasenameName(OutputFileArg))
                     ELSE output_format)
    /\ pc' = "uniq_start"
    /\ UNCHANGED <<api_result, existing, new_path, root_dir, file_paths,
                   output_filename, output_file, final_output_path, apiFixed>>

\* lines 99-116: the resolved path is final, aggregate_code is called
ApiResolved ==
    /\ pc = "uniq_done"
    /\ api_entry = "aggregate_directory"
    /\ final_output_path' = new_path
    /\ printed' = PrintedAfter(log_queue)
    /\ log_queue' = DrainedLog
    /\ root_dir' = directory
    /\ file_paths' = found_files_list
    /\ output_filename' = new_path
    /\ output_file' = TextAt(new_path)
    /\ pc' = "agg_start"
    /\ UNCHANGED <<api_result, existing, output_dir, filename, extension, new_path,
                   apiFixed>>

\* lines 85-116: no auto_rename, the given path is final, aggregate_code is called
ApiKeepPath ==
    /\ pc = "find_done"
    /\ api_entry = "aggregate_directory"
    /\ found_files_list # <<>>
    /\ ~auto_rename
    /\ printed' = PrintedAfter(log_queue)
    /\ log_queue' = DrainedLog
    /\ final_output_path' = OutputFileArg
    /\ root_dir' = directory
    /\ file_paths' = found_files_list
    /\ output_filename' = OutputFileArg
    /\ output_file' = TextAt(OutputFileArg)
    /\ pc' = "agg_start"
    /\ UNCHANGED <<api_result, existing, output_dir, filename, extension, new_path,
                   apiFixed>>

\* lines 109-123: whatever aggregate_code returned, the path is returned
ApiReturn ==
    /\ pc = "agg_done"
    /\ api_entry = "aggregate_directory"
    /\ printed' = PrintedAfter(log_queue \o << <<"saved", final_output_path>> >>)
    /\ log_queue' = DrainedLog
    /\ api_result' = final_output_path
    /\ pc' = "api_done"
    /\ UNCHANGED <<existing, output_dir, filename, extension, new_path,
                   root_dir, file_paths, output_filename, output_file,
                   final_output_path, apiFixed>>

\* generate_tree_only, lines 146-155: find_files is called
TreeOnlyFind ==
    /\ pc = "api_start"
    /\ api_entry = "generate_tree_only"
    /\ pc' = "find_start"
    /\ UNCHANGED <<log_queue, printed, api_result, existing, output_dir, filename,
                   extension, new_path, root_dir, file_paths, output_filename,
                   output_file, final_output_path, apiFixed>>

\* generate_tree_only, lines 156-158: nothing was found
TreeOnlyNoFiles ==
    /\ pc = "find_done"
    /\ api_entry = "generate_tree_only"
    /\ found_files_list = <<>>
    /\ api_result' = "None"
    /\ pc' = "api_done"
    /\ UNCHANGED <<log_queue, printed, existing, output_dir, filename,
                   extension, new_path, root_dir, file_paths, output_filename,
                   output_file, final_output_path, apiFixed>>

\* generate_tree_only, lines 156-157: generate_file_tree is called
TreeOnlyTree ==
    /\ pc = "find_done"
    /\ api_entry = "generate_tree_only"
    /\ found_files_list # <<>>
    /\ root_dir' = directory
    /\ file_paths' = found_files_list
    /\ pc' = "tree_start"
    /\ UNCHANGED <<log_queue, printed, api_result, existing, output_dir, filename,
                   extension, new_path, output_filename,
                   output_file, final_output_path, apiFixed>>

\* generate_tree_only, line 157: the tree string is returned
TreeOnlyReturn ==
    /\ pc = "tree_done"
    /\ api_entry = "generate_tree_only"
    /\ api_result' = tree_string
    /\ pc' = "api_done"
    /\ UNCHANGED <<log_queue, printed, existing, output_dir, filename,
                   extension, new_path, root_dir, file_paths, output_filename,
                   output_file, final_output_path, apiFixed>>

\* ---- the inputs of the API methods

\* filesystems: no scanned directory, one file, two files, one file in a
\* subdirectory
ApiFilesystems ==
    { {},
      {Cwd \o <<n_r, f_mp>>},
      {Cwd \o <<n_r, f_mp>>, Cwd \o <<n_r, n_s, f_nt>>},
      {Cwd \o <<n_r, n_s, f_nt>>} }

ApiExtensionLists == { <<>>, << <<".", "p">> >>, << <<".", "t">>, <<".", "p">> >> }

\* output_file: None, a path with a directory, a bare file name
ApiOutputFiles == {<<>>, RawOf(OutDirAbs \o <<OutName>>), <<OutName>>}

\* what exists where the output may go
ApiExisting ==
    { {},
      {OutDirAbs},
      {OutDirAbs, OutDirAbs \o <<OutName>>},
      {OutDirAbs, OutDirAbs \o <<OutName>>,
       OutDirAbs \o <<NumberedName(SplitextRoot(OutName), 1, SplitextExt(OutName))>>},
      {Cwd \o <<OutName>>},
      {Cwd \o <<SummaryName \o <<".", "m", "d">> >>} }

\* the output write call that may fail for good
ApiFailAt == {0, 5}

InitApi ==
    /\ GuiIdle
    /\ pc = "api_start"
    /\ log_queue = <<>>
    /\ api_entry \in {"aggregate_directory", "generate_tree_only"}
    /\ directory = RawOf(Cwd \o <<n_r>>)
    /\ fs_files \in ApiFilesystems
    /\ unreadable_dirs = {}
    /\ extensions \in ApiExtensionLists
    /\ ignore_items = {}
    /\ walk_stack = <<>>
    /\ found_files_list = <<>>
    /\ IF api_entry = "aggregate_directory"
       THEN /\ api_output_file \in ApiOutputFiles
            /\ auto_rename \in BOOLEAN
            /\ verbose \in BOOLEAN
            /\ output_format \in OutputFormats
            /\ existing \in ApiExisting
            /\ can_mkdir \in BOOLEAN
            /\ can_open \in BOOLEAN
            /\ fail_at \in ApiFailAt
       ELSE /\ api_output_file = <<>>
            /\ auto_rename = FALSE
            /\ verbose = FALSE
            /\ output_format = <<>>
            /\ existing = {}
            /\ can_mkdir = TRUE
            /\ can_open = TRUE
            /\ fail_at = 0
    /\ fail_persistent = (fail_at # 0)
    /\ \E unreadable \in {{}, {Cwd \o <<n_r, n_s, f_nt>>} \cap fs_files} :
          input_files = [p \in fs_files |->
                            [readable |-> p \notin unreadable, raw |-> PlainContent]]
    /\ printed = <<>>
    /\ final_output_path = <<>>
    /\ api_result = "unset"
    /\ output_dir = <<>> /\ filename = <<>> /\ extension = <<>>
    /\ counter = 0 /\ new_path = <<>>
    /\ TreeIdle
    /\ output_filename = <<>>
    /\ write_calls = 0
    /\ output_file = <<>>
    /\ opened = FALSE
    /\ progress_queue = <<>>
    /\ file_idx = 0
    /\ result = "unset"

\* aggregate_code is called with a list that is not empty (line 88)
NextApi ==
    \/ ApiDirMissing \/ ApiFind
    \/ FindStart \/ WalkStep \/ FindReturn
    \/ ApiNoFiles \/ ApiResolve \/ ApiKeepPath
    \/ UniqueReturnBase \/ UniqueCollide \/ UniqueRetry \/ UniqueReturnNew
    \/ ApiResolved
    \/ AggDirExists \/ AggMakeDir \/ AggMakeDirFails
    \/ AggOpen \/ AggOpenFails
    \/ AggHeader \/ AggTree
    \/ AggFileBegin \/ AggFileRead \/ AggFileUnreadable
    \/ AggFinish
    \/ ApiReturn
    \/ TreeOnlyFind \/ TreeOnlyNoFiles \/ TreeOnlyTree
    \/ TreeStart \/ TreeInsert \/ TreeReturn
    \/ TreeOnlyReturn

SpecApi == InitApi /\ [][NextApi]_vars

(***************************************************************************)
(* Properties of the API methods.                                          *)
(***************************************************************************)

\* the output was opened and holds the whole artifact
ArtifactWritten ==
    /\ opened
    /\ output_file = HeaderText \o TreeText_Agg \o FileBlocks(Len(file_paths))

\* C12 as stated: aggregate_directory returns the output path only when the
\* artifact was written and None in every failure case, and aggregate_code
\* returns its success value (None, the value of a run that reached its end)
\* only when the artifact was written.
Orig_C12_OutcomeTellsSuccess ==
    /\ (pc = "api_done" /\ api_entry = "aggregate_directory") =>
          /\ api_result # "None" => (api_result = final_output_path /\ ArtifactWritten)
          /\ ~ArtifactWritten => api_result = "None"
    /\ result # "unset" => (result = "None" <=> ArtifactWritten)

\* the artifact was written and its path returned
Wit_C12_PathOfWrittenArtifact ==
    /\ pc = "api_done"
    /\ api_entry = "aggregate_directory"
    /\ ArtifactWritten
    /\ api_result = final_output_path
    /\ result = "None"

WriteFailed == fail_at # 0 /\ write_calls >= fail_at

\* C14 as stated: once a write to the output has failed the run is over,
\* with the write error as its last log line and no summary line, and every
\* read-error line in the log is about a file that could not be read.
Orig_C14_WriteFailureIsFatal ==
    WriteFailed =>
        /\ pc = "agg_done"
        /\ result = "None"
        /\ log_queue[Len(log_queue)] = FatalLog
        /\ \A i \in 1..Len(log_queue) :
              /\ log_queue[i][1] # "all_done"
              /\ log_queue[i][1] = "read_error" =>
                    \E p \in Range(file_paths) :
                        /\ ~input_files[p].readable
                        /\ log_queue[i][2] = ErrorMessage(p, "ENOENT")

\* a header write failed: the run ended there with the write error logged
Wit_C14_HeaderWriteFatal ==
    /\ WriteFailed
    /\ fail_at <= 4
    /\ file_paths # <<>>
    /\ pc = "agg_done"
    /\ log_queue[Len(log_queue)] = FatalLog
    /\ progress_queue = <<>>

\* the positions of the output where the path block of a listed file begins
BlockStarts ==
    {i \in 1..(Len(output_file) - 3) :
        /\ output_file[i] = Dash80
        /\ output_file[i + 1] = NL
        /\ \E k \in 1..Len(file_paths) :
              output_file[i + 2] = "PATH: " \o PathStr(file_paths[k])
        /\ output_file[i + 3] = NL}

\* the same positions in increasing order
BlockStartSeq ==
    CHOOSE q \in [1..Cardinality(BlockStarts) -> BlockStarts] :
        \A a, b \in 1..Cardinality(BlockStarts) : a < b => q[a] < q[b]

IsSuffix(p, q) == Len(p) <= Len(q) /\ SubSeq(q, Len(q) - Len(p) + 1, Len(q)) = p

\* what follows the marker line of the j-th block, up to `last`, is the rest
\* of the path block and then the file's content or an error marker
BlockBodyOk(j, from, last) ==
    LET p    == file_paths[j]
        rest == SubSeq(output_file, from, last)
        body == SubSeq(rest, 4, Len(rest))
    IN /\ Len(rest) >= 3
       /\ SubSeq(rest, 1, 3) = <<Dash80, NL, NL>>
       /\ \/ body = FlattenChunks(ContentChunks(p, ReadText(input_files[p].raw),
                                                output_format))
          \/ \E e \in {"ENOENT", "ENOSPC"} : IsSuffix(ErrorMessage(p, e), body)

\* the order of what an opened output holds
OutputInOrder ==
    LET q == BlockStartSeq
        m == Cardinality(BlockStarts)
        done == \E i \in 1..Len(log_queue) : log_queue[i][1] = "all_done"
    IN /\ IsPrefix(output_file, HeaderText) \/ IsPrefix(HeaderText, output_file)
       /\ file_paths = <<>> => IsPrefix(output_file, HeaderText)
       /\ m <= Len(file_paths)
       /\ m >= 1 => SubSeq(output_file, 1, q[1] - 1) = HeaderText \o TreeText_Agg
       /\ \A j \in 1..m : output_file[q[j] + 2] = "PATH: " \o PathStr(file_paths[j])
       /\ \A j \in 1..(m - 1) : BlockBodyOk(j, q[j] + 4, q[j + 1] - 1)
       /\ \A i \in 1..Len(log_queue) :
              log_queue[i][1] = "all_done" =>
                  /\ i = Len(log_queue)
                  /\ pc = "agg_done"
                  /\ m = Len(file_paths)
                  /\ m >= 1 => BlockBodyOk(m, q[m] + 4, Len(output_file))

\* C15: the output only grows once it is open, and at every moment it holds,
\* in this order, the header, the tree section (when the list is not empty),
\* and the blocks of the first files of the list in list order, each a path
\* block followed by the file's content or an error marker; the summary line
\* is the last log line and is there only when the last file's block is.
Thm_C15_WritesInListOrder ==
    /\ [](opened => OutputInOrder)
    /\ [][opened => IsPrefix(output_file, output_file')]_vars

\* two blocks are in the output, the second file's after the first's, and
\* the summary line is logged
Wit_C15_TwoBlocksThenSummary ==
    /\ Completed
    /\ Len(file_paths) = 2
    /\ Cardinality(BlockStarts) = 2
    /\ output_file[BlockStartSeq[2] + 2] = "PATH: " \o PathStr(file_paths[2])
    /\ fail_at # 0

(***************************************************************************)
(* Further properties of the API methods.                                  *)
(***************************************************************************)

\* a configuration error: no such directory, or no extension given
ConfigError == ~IsDir(directory) \/ extensions = <<>>

\* C16 as stated: on a configuration error the method does not start: no
\* traversal, no output-path resolution, no output opened, and it returns
\* None.
Orig_C16_ConfigErrorBeforeIO ==
    ConfigError =>
        /\ pc \in {"api_start", "api_done"}
        /\ walk_stack = <<>>
        /\ new_path = <<>>
        /\ ~opened
        /\ pc = "api_done" => api_result = "None"

\* aggregate_directory on a missing directory: the error is printed, None is
\* returned, find_files was not called
Wit_C16_MissingDirectoryRejected ==
    /\ api_entry = "aggregate_directory"
    /\ ~IsDir(directory)
    /\ extensions # <<>>
    /\ pc = "api_done"
    /\ api_result = "None"
    /\ printed = << <<"dir_missing", directory>> >>
    /\ log_queue = <<>>

(***************************************************************************)
(* find_files and directories that cannot be read.                         *)
(***************************************************************************)

\* the walk reaches f: no directory from the scanned one down to f's own is
\* unreadable
Reachable(f) == DirsAbove(f) \cap unreadable_dirs = {}

\* the walk meets d: every directory above d, from the scanned one, is readable
MetByWalk(d) ==
    /\ IsPrefix(ScanTop, d)
    /\ \A k \in Len(ScanTop)..(Len(d) - 1) : SubSeq(d, 1, k) \notin unreadable_dirs

\* a log line about directory d (the last line of a search holds a count)
LoggedAbout(d) ==
    \E i \in 1..Len(log_queue) :
        /\ log_queue[i][1] # "search_done"
        /\ log_queue[i][2] \in {d, RawOf(d)}

\* C17 as stated: find_files skips a subdirectory it cannot read, puts a log
\* line about it on the log sink, and still returns every matching file of
\* the directories it can read.
Orig_C17_UnreadableSkippedAndLogged ==
    pc = "find_done" =>
        /\ \A d \in unreadable_dirs : MetByWalk(d) => LoggedAbout(d)
        /\ \A f \in fs_files :
              f \in Range(found_files_list) <=> (Reachable(f) /\ SuffixMatch(f))

\* a walk that met an unreadable subdirectory returned a file of a readable
\* directory scanned after it, and nothing from below the unreadable one
Wit_C17_WalkContinuedPastUnreadable ==
    /\ pc = "find_done"
    /\ \E d \in unreadable_dirs :
          /\ MetByWalk(d)
          /\ \E f \in fs_files : IsPrefix(d, f) /\ SuffixMatch(f)
          /\ \A f \in Range(found_files_list) : ~IsPrefix(d, f)
    /\ found_files_list # <<>>
    /\ Len(log_queue) = Len(found_files_list) + 2

(***************************************************************************)
(* aggregate_code and the output directory.                                *)
(***************************************************************************)

\* os.makedirs was called
MakedirsAttempted ==
    \E i \in 1..Len(log_queue) : log_queue[i][1] \in {"mkdir", "mkdir_failed"}

\* the directory that holds the output path was there when the run began: the
\* working directory for a bare file name, else a directory that exists and
\* that the run did not create
ContainingDirWasThere ==
    \/ Dirname(output_filename) = <<>>
    \/ /\ Abspath(Dirname(output_filename)) \in existing
       /\ \A i \in 1..Len(log_queue) : log_queue[i][1] # "mkdir"

\* C18 as stated: when the directory that will hold the output is there (the
\* working directory for a bare file name), os.makedirs is not attempted and
\* the run goes on to open the output and write the header.
Orig_C18_ExistingDirNotCreated ==
    ContainingDirWasThere =>
        /\ ~MakedirsAttempted
        /\ result # "False"
        /\ (pc = "agg_done" /\ can_open /\ fail_at = 0) =>
              (opened /\ IsPrefix(HeaderText, output_file))

\* the output path has a directory part that was there: no makedirs, the
\* output opened, the header written
Wit_C18_ExistingDirUsed ==
    /\ Dirname(output_filename) # <<>>
    /\ ContainingDirWasThere
    /\ ~MakedirsAttempted
    /\ pc = "agg_done"
    /\ opened
    /\ IsPrefix(HeaderText, output_file)

(***************************************************************************)
(* CodeAggregatorApp (src/code_aggregator_gui.py): the start button, the   *)
(* worker threads and the queue poller.  A worker is a record: pc its      *)
(* position in run_aggregation_logic, n the number of files found, wrote   *)
(* what became of the output ("none", "complete", "failed"), finish_puts   *)
(* how many FINISH_TASK messages it has put.  Each message of the log      *)
(* queue carries the number of the thread that put it.  The handlers of    *)
(* the Tk thread (a click, a poll) run one at a time; the steps of the     *)
(* workers interleave with them at each put.                               *)
(***************************************************************************)

guiOther == <<pc, log_queue, findVars, uniqVars, treeVars, aggArgs, write_calls,
              output_file, opened, file_idx, result, apiVars>>

\* most files a GUI run finds
MaxGuiFiles == 2

Msg(r, m) == [run |-> r, msg |-> m]

\* log_queue.put by worker r of the messages ms
Puts(r, ms) == gui_log_queue \o [k \in 1..Len(ms) |-> Msg(r, ms[k])]

\* worker r moves to position p
Goto(r, p) == [workers EXCEPT ![r].pc = p]

\* the user picks a root directory
ChooseDir ==
    /\ dir_path = ""
    /\ dir_path' = "/h/r"
    /\ UNCHANGED <<start_button, workers, gui_log_queue, log_area, progress_bar,
                   dialogs, progress_queue, existing, guiOther>>

\* start_aggregation_thread, lines 438-440: no root directory chosen
ClickWithoutDir ==
    /\ start_button = "normal"
    /\ dir_path = ""
    /\ dialogs = <<>>
    /\ dialogs' = Append(dialogs, <<"error_no_dir">>)
    /\ UNCHANGED <<dir_path, start_button, workers, gui_log_queue, log_area,
                   progress_bar, progress_queue, existing, guiOther>>

\* start_aggregation_thread, lines 442-449: a click on the enabled button
\* (a disabled button takes no click)
ClickStart ==
    /\ start_button = "normal"
    /\ dir_path # ""
    /\ Len(workers) < MaxRuns
    /\ start_button' = "disabled"
    /\ progress_bar' = 0
    /\ log_area' = <<>>
    /\ workers' = Append(workers, [pc |-> "collect", n |-> 0, wrote |-> "none",
                                   finish_puts |-> 0])
    /\ UNCHANGED <<dir_path, gui_log_queue, dialogs, progress_queue, existing, guiOther>>

\* lines 463-464: no extension selected, the error line is put
WorkerNoExtensions(r) ==
    /\ workers[r].pc = "collect"
    /\ gui_log_queue' = Puts(r, <<"no_extensions">>)
    /\ workers' = Goto(r, "early_finish")
    /\ UNCHANGED <<dir_path, start_button, log_area, progress_bar, dialogs,
                   progress_queue, existing, guiOther>>

\* line 465: FINISH_TASK is put before the return
WorkerEarlyFinish(r) ==
    /\ workers[r].pc = "early_finish"
    /\ gui_log_queue' = Puts(r, <<"FINISH_TASK">>)
    /\ workers' = [workers EXCEPT ![r].pc = "finally",
                                  ![r].finish_puts = workers[r].finish_puts + 1]
    /\ UNCHANGED <<dir_path, start_button, log_area, progress_bar, dialogs,
                   progress_queue, existing, guiOther>>

\* lines 452-507: an exception in the body, the error line is put
WorkerRaises(r) ==
    /\ workers[r].pc = "collect"
    /\ gui_log_queue' = Puts(r, <<"unexpected_error">>)
    /\ workers' = Goto(r, "finally")
    /\ UNCHANGED <<dir_path, start_button, log_area, progress_bar, dialogs,
                   progress_queue, existing, guiOther>>

\* lines 468-494, 504-505: extensions selected, the output path resolved,
\* find_files run; nothing found puts one more line.  The lines find_files
\* puts stand for all the ordinary lines of this stretch.
WorkerFind(r) ==
    /\ workers[r].pc = "collect"
    /\ \E n \in 0..MaxGuiFiles :
          /\ gui_log_queue' =
                Puts(r, <<"search_start">> \o [k \in 1..n |-> "found"]
                        \o <<"search_done">>
                        \o (IF n = 0 THEN <<"no_files">> ELSE <<>>))
          /\ workers' = [workers EXCEPT ![r].n = n,
                                        ![r].pc = IF n = 0 THEN "finally" ELSE "agg_open"]
    /\ UNCHANGED <<dir_path, start_button, log_area, progress_bar, dialogs,
                   progress_queue, existing, guiOther>>

\* aggregate_code (GUI copy), lines 146-148: the output is opened
WorkerAggOpen(r) ==
    /\ workers[r].pc = "agg_open"
    /\ gui_log_queue' = Puts(r, <<"creating">>)
    /\ workers' = Goto(r, "agg_write")
    /\ UNCHANGED <<dir_path, start_button, log_area, progress_bar, dialogs,
                   progress_queue, existing, guiOther>>

\* aggregate_code (GUI copy), lines 147, 192-193: open raises, the write error
\* is put, the function returns
WorkerAggOpenFails(r) ==
    /\ workers[r].pc = "agg_open"
    /\ gui_log_queue' = Puts(r, <<"write_error">>)
    /\ workers' = [workers EXCEPT ![r].pc = "after_aggregate", ![r].wrote = "failed"]
    /\ UNCHANGED <<dir_path, start_button, log_area, progress_bar, dialogs,
                   progress_queue, existing, guiOther>>

\* aggregate_code (GUI copy), lines 150-191: header, tree and every file
\* written, a progress value per file, the summary line
WorkerAggWrite(r) ==
    /\ workers[r].pc = "agg_write"
    /\ gui_log_queue' =
          Puts(r, <<"tree_start", "tree_done">> \o [k \in 1..workers[r].n |-> "writing"]
                  \o <<"all_done">>)
    /\ progress_queue' = progress_queue \o
          [k \in 1..workers[r].n |-> ProgressValue(k - 1, workers[r].n)]
    /\ workers' = [workers EXCEPT ![r].pc = "after_aggregate", ![r].wrote = "complete"]
    /\ UNCHANGED <<dir_path, start_button, log_area, progress_bar, dialogs,
                   existing, guiOther>>

\* aggregate_code (GUI copy), lines 150-167, 192-193: a write of the header,
\* the tree or the first path block raises, the write error is put
WorkerAggWriteFails(r) ==
    /\ workers[r].pc = "agg_write"
    /\ \E begun \in BOOLEAN :
          /\ gui_log_queue' =
                Puts(r, (IF begun THEN <<"tree_start", "tree_done", "writing">> ELSE <<>>)
                        \o <<"write_error">>)
          /\ progress_queue' = progress_queue \o
                (IF begun THEN <<ProgressValue(0, workers[r].n)>> ELSE <<>>)
    /\ workers' = [workers EXCEPT ![r].pc = "after_aggregate", ![r].wrote = "failed"]
    /\ UNCHANGED <<dir_path, start_button, log_area, progress_bar, dialogs,
                   existing, guiOther>>

\* line 503: after aggregate_code has returned, SUCCESS is put
WorkerSuccess(r) ==
    /\ workers[r].pc = "after_aggregate"
    /\ gui_log_queue' = Puts(r, <<"SUCCESS">>)
    /\ workers' = Goto(r, "finally")
    /\ UNCHANGED <<dir_path, start_button, log_area, progress_bar, dialogs,
                   progress_queue, existing, guiOther>>

\* lines 508-509: finally, FINISH_TASK is put; the thread ends
WorkerFinally(r) ==
    /\ workers[r].pc = "finally"
    /\ gui_log_queue' = Puts(r, <<"FINISH_TASK">>)
    /\ workers' = [workers EXCEPT ![r].pc = "finished",
                                  ![r].finish_puts = workers[r].finish_puts + 1]
    /\ UNCHANGED <<dir_path, start_button, log_area, progress_bar, dialogs,
                   progress_queue, existing, guiOther>>

IsSuccessMsg(m) == m.msg = "SUCCESS"

IsLineMsg(m) == m.msg \notin {"SUCCESS", "FINISH_TASK"}

\* the dialogs of the SUCCESS messages of a queue
RECURSIVE SuccessDialogs(_)
SuccessDialogs(q) ==
    IF q = <<>> THEN <<>>
    ELSE (IF IsSuccessMsg(Head(q)) THEN << <<"success", Head(q).run>> >> ELSE <<>>)
         \o SuccessDialogs(Tail(q))

\* process_log_queue, lines 511-540: every message in the queue is taken and
\* handled, then every progress value
PollQueues ==
    /\ gui_log_queue # <<>> \/ progress_queue # <<>>
    /\ dialogs' = dialogs \o SuccessDialogs(gui_log_queue)
    /\ start_button' = (IF \E i \in 1..Len(gui_log_queue) :
                              gui_log_queue[i].msg = "FINISH_TASK"
                        THEN "normal" ELSE start_button)
    /\ log_area' = log_area \o SelectSeq(gui_log_queue, IsLineMsg)
    /\ progress_bar' = (IF progress_queue = <<>> THEN progress_bar
                        ELSE progress_queue[Len(progress_queue)])
    /\ gui_log_queue' = <<>>
    /\ progress_queue' = <<>>
    /\ UNCHANGED <<dir_path, workers, existing, guiOther>>

InitGui ==
    /\ ApiIdle
    /\ FindIdle
    /\ UniqIdle
    /\ TreeIdle
    /\ AggIdle
    /\ pc = "gui"
    /\ log_queue = <<>>
    /\ dir_path \in {"", "/h/r"}
    /\ start_button = "normal"
    /\ workers = <<>>
    /\ gui_log_queue = <<>>
    /\ log_area = <<>>
    /\ progress_bar = 0
    /\ dialogs = <<>>

NextGui ==
    \/ ChooseDir \/ ClickWithoutDir \/ ClickStart
    \/ PollQueues
    \/ \E r \in 1..Len(workers) : WorkerNoExtensions(r)
    \/ \E r \in 1..Len(workers) : WorkerEarlyFinish(r)
    \/ \E r \in 1..Len(workers) : WorkerRaises(r)
    \/ \E r \in 1..Len(workers) : WorkerFind(r)
    \/ \E r \in 1..Len(workers) : WorkerAggOpen(r)
    \/ \E r \in 1..Len(workers) : WorkerAggOpenFails(r)
    \/ \E r \in 1..Len(workers) : WorkerAggWrite(r)
    \/ \E r \in 1..Len(workers) : WorkerAggWriteFails(r)
    \/ \E r \in 1..Len(workers) : WorkerSuccess(r)
    \/ \E r \in 1..Len(workers) : WorkerFinally(r)

SpecGui == InitGui /\ [][NextGui]_vars

(***************************************************************************)
(* The worker protocol of the GUI.                                         *)
(***************************************************************************)

\* worker r has been started and its thread has not ended
Running(r) == workers[r].pc # "finished"

RunningWorkers == {r \in 1..Len(workers) : Running(r)}

\* C19 -- at most one worker thread runs at any time, the start button is
\* enabled only while no worker is running, and every run puts exactly one
\* FINISH_TASK, as its last message, on every path.
Orig_C19_OneWorkerOneFinish ==
    /\ Cardinality(RunningWorkers) <= 1
    /\ start_button = "normal" => RunningWorkers = {}
    /\ \A r \in 1..Len(workers) :
          /\ workers[r].finish_puts <= 1
          /\ ~Running(r) => workers[r].finish_puts = 1

\* a run has ended with one FINISH_TASK, the poller has enabled the button
\* again, and the next run has been started
Wit_C19_SecondRunAfterFirstEnded ==
    /\ Len(workers) = 2
    /\ ~Running(1)
    /\ workers[1].finish_puts = 1
    /\ Running(2)
    /\ start_button = "disabled"

(***************************************************************************)
(* The outcome the GUI reports.                                            *)
(***************************************************************************)

\* the FINISH_TASK messages of run r in the queue after position j
FinishAfter(r, j) ==
    {i \in (j + 1)..Len(gui_log_queue) :
        gui_log_queue[i].run = r /\ gui_log_queue[i].msg = "FINISH_TASK"}

\* C20 -- SUCCESS is put only by a run whose output was opened and written to
\* completion (never by one where aggregate_code logged a write error), and a
\* run's SUCCESS precedes its FINISH_TASK.
Orig_C20_SuccessOnlyWhenWritten ==
    /\ \A j \in 1..Len(gui_log_queue) :
          gui_log_queue[j].msg = "SUCCESS" =>
             /\ workers[gui_log_queue[j].run].wrote = "complete"
             /\ Cardinality(FinishAfter(gui_log_queue[j].run, j))
                   = workers[gui_log_queue[j].run].finish_puts
    /\ \A k \in 1..Len(dialogs) :
          dialogs[k][1] = "success" => workers[dialogs[k][2]].wrote = "complete"

\* a run wrote its output completely, its SUCCESS dialog was shown and its
\* FINISH_TASK enabled the button again
Wit_C20_SuccessShownForWrittenOutput ==
    /\ Len(workers) = 1
    /\ workers[1].wrote = "complete"
    /\ ~Running(1)
    /\ dialogs = << <<"success", 1>> >>
    /\ gui_log_queue = <<>>
    /\ start_button = "normal"

====
